---------------------------- MODULE Spec2Model ----------------------------
(***************************************************************************)
(* HoneyPort: the honeypot session server (src/honeypot/server.py), its    *)
(* command analyzer (src/honeypot/ai_analysis.py over src/backend/ai.py),  *)
(* its log writer and responder (src/honeypot/handlers.py), its alert      *)
(* sender (src/honeypot/telegram_alert.py) and the backend's threat        *)
(* analysis (src/backend/aetherion_app.py).                                *)
(*                                                                         *)
(* Python strings are sequences of one-character strings, so that strip,   *)
(* lower, split, count and the substring test are computed as Python       *)
(* computes them.  Scores are integers: hundredths for the weights, and    *)
(* ten-thousandths for the normalised backend score.  The backquote        *)
(* character is written "<backquote>".                                     *)
(***************************************************************************)
EXTENDS Integers, Sequences, FiniteSets, TLC

\* -------------------------------------------------------------------------
\* Python str primitives
\* -------------------------------------------------------------------------
UpperChars == <<"A","B","C","D","E","F","G","H","I","J","K","L","M","N","O","P","Q","R","S","T","U","V","W","X","Y","Z">>
LowerChars == <<"a","b","c","d","e","f","g","h","i","j","k","l","m","n","o","p","q","r","s","t","u","v","w","x","y","z">>
DigitChars == <<"0","1","2","3","4","5","6","7","8","9">>
SpaceChars == <<" ","\t","\n","\r">>

Range(s) == {s[i] : i \in 1..Len(s)}

isdigit(c) == c \in Range(DigitChars)
isupper(c) == c \in Range(UpperChars)
isspace(c) == c \in Range(SpaceChars)
isalnum(c) == c \in Range(UpperChars) \cup Range(LowerChars) \cup Range(DigitChars)

\* str.lower(), one character
lowerChar(c) ==
    IF isupper(c)
    THEN LowerChars[CHOOSE i \in 1..Len(UpperChars) : UpperChars[i] = c]
    ELSE c

\* str.lower()
lower(s) == [i \in 1..Len(s) |-> lowerChar(s[i])]

\* a variant: the line is used as it was decoded
strip_nothing(s) == s

\* str.strip(): drops leading and trailing whitespace
strip(s) ==
    LET keep == {i \in 1..Len(s) : ~isspace(s[i])}
    IN  IF keep = {} THEN <<>>
        ELSE LET lo == CHOOSE i \in keep : \A j \in keep : i <= j
                 hi == CHOOSE i \in keep : \A j \in keep : i >= j
             IN  SubSeq(s, lo, hi)

\* s.startswith(p)
startswith(s, p) == Len(p) <= Len(s) /\ \A j \in 1..Len(p) : s[j] = p[j]

\* s.endswith(p)
endswith(s, p) ==
    Len(p) <= Len(s) /\ \A j \in 1..Len(p) : s[Len(s) - Len(p) + j] = p[j]

\* the Python test  p in s
contains(p, s) ==
    \E i \in 1..(Len(s) - Len(p) + 1) : \A j \in 1..Len(p) : s[i + j - 1] = p[j]

\* s.count(p): non-overlapping occurrences, scanned from the left
RECURSIVE countFrom(_, _, _)
countFrom(s, p, i) ==
    IF i + Len(p) - 1 > Len(s) THEN 0
    ELSE IF \A j \in 1..Len(p) : s[i + j - 1] = p[j]
         THEN 1 + countFrom(s, p, i + Len(p))
         ELSE countFrom(s, p, i + 1)

count(s, p) == countFrom(s, p, 1)

\* len(s.split()): the number of maximal runs of non-whitespace
word_count(s) ==
    Cardinality({i \in 1..Len(s) :
                   ~isspace(s[i]) /\ (i = 1 \/ isspace(s[i-1]))})

\* s.split()[0] for a string with at least one word
first_word(s) ==
    LET t  == strip(s)
        ws == {i \in 1..Len(t) : isspace(t[i])}
    IN  IF ws = {} THEN t
        ELSE SubSeq(t, 1, (CHOOSE i \in ws : \A j \in ws : i <= j) - 1)

\* str(n) for a natural number
RECURSIVE str(_)
str(n) == IF n < 10 THEN <<DigitChars[n + 1]>>
          ELSE str(n \div 10) \o <<DigitChars[(n % 10) + 1]>>

RECURSIVE SumSeq(_)
SumSeq(s) == IF s = <<>> THEN 0 ELSE Head(s) + SumSeq(Tail(s))

Min(a, b) == IF a <= b THEN a ELSE b

\* -------------------------------------------------------------------------
\* What clients send
\* -------------------------------------------------------------------------
\* the lines a client sends (the bytes readline returns); "<0xFF>" is a byte
\* that is not valid UTF-8
ClientLines == {
    << " ", "<0xFF>", "\t", "\n" >>,
    <<"L","S"," ","\n">>,
    <<"c","a","t"," ","/","e","t","c","/","p","a","s","s","w","d","\n">>,
    <<"s","u","d","o"," ","i","d"," ","&","&"," ","w","h","o","a","m","i","\n">>,
    <<"s","u","d","o"," ","i","d"," ","&","&"," ","w","h","o","a","m","i",";"," ","r","m"," ","-","r","f"," ","/","\n">> }

\* data.decode('utf-8', errors='ignore')
decode(data) == SelectSeq(data, LAMBDA b : b # "<0xFF>")

\* the commands of these lines
SessionCommands == {strip(decode(data)) : data \in ClientLines} \ {<<>>}

\* -------------------------------------------------------------------------
\* src/backend/ai.py  AIManager
\* -------------------------------------------------------------------------
\* AIManager.extract_features: the pattern list
suspicious_patterns == <<
    <<"r","m"," ","-","r","f">>, <<"s","u","d","o">>, <<"s","u"," ","-">>, <<"p","a","s","s","w","d">>, <<"s","h","a","d","o","w">>,
    <<"i","p","t","a","b","l","e","s">>, <<"n","e","t","s","t","a","t">>, <<"p","s"," ","a","u","x">>, <<"w","h","o","a","m","i">>, <<"i","d">>,
    <<"c","u","r","l">>, <<"w","g","e","t">>, <<"n","c"," ">>, <<"n","e","t","c","a","t">>, <<"t","e","l","n","e","t">>,
    <<"f","t","p">>, <<"n","m","a","p">>, <<"h","y","d","r","a">>, <<"j","o","h","n">>, <<"h","a","s","h","c","a","t">>,
    <<"p","y","t","h","o","n">>, <<"b","a","s","h">>, <<"s","h"," ">>, <<"c","h","m","o","d">>, <<"c","h","o","w","n">>,
    <<"k","i","l","l">>, <<"p","k","i","l","l">>, <<"k","i","l","l","a","l","l">>, <<"s","y","s","t","e","m","c","t","l">>,
    <<"j","o","u","r","n","a","l","c","t","l">>, <<"c","a","t"," ","/","e","t","c">>, <<"c","a","t"," ","/","p","r","o","c">>, <<"l","s"," ","-","l","a">>,
    <<"f","i","n","d"," ">>, <<"g","r","e","p"," ">>, <<"a","w","k">>, <<"s","e","d">>, <<"x","a","r","g","s">>, <<".",".">>,
    <<"/","d","e","v","/","n","u","l","l">>, <<"2",">","&","1">>, <<">","/","d","e","v","/","n","u","l","l">>, <<"&","&">>, <<"|","|">> >>

\* round(1000 * c * log2(c)) for c = 1..64, the terms of the Shannon
\* entropy of extract_features:  H = log2(n) - (1/n) * SUM c*log2(c)

CLog2 == <<
    0, 2000, 4755, 8000, 11610, 15510, 19651, 24000,
    28529, 33219, 38054, 43020, 48106, 53303, 58603, 64000,
    69487, 75059, 80711, 86439, 92239, 98107, 104042, 110039,
    116096, 122211, 128382, 134606, 140881, 147207, 153580, 160000,
    166465, 172974, 179525, 186117, 192750, 199421, 206131, 212877,
    219660, 226477, 233329, 240215, 247133, 254084, 261066, 268078,
    275121, 282193, 289294, 296423, 303580, 310764, 317975, 325212,
    332475, 339763, 347076, 354413, 361775, 369160, 376569, 384000 >>

\* entropy > 4 (the only use of the entropy by the heuristic), that is
\* n*log2(n) - SUM c*log2(c) > 4*n  over the character counts c
entropy_gt4(command) ==
    LET n == Len(command)
        cnt(ch) == Cardinality({i \in 1..n : command[i] = ch})
        first == {i \in 1..n : \A j \in 1..(i - 1) : command[j] # command[i]}
        terms == [i \in 1..n |-> IF i \in first THEN CLog2[cnt(command[i])] ELSE 0]
    IN  n > 0 /\ CLog2[n] - SumSeq(terms) > 4000 * n

extract_features(command) ==
    LET command_lower == lower(command)
        detected == SelectSeq(suspicious_patterns,
                              LAMBDA p : contains(p, command_lower))
    IN  [ length              |-> Len(command),
          word_count          |-> word_count(command),
          digit_count         |-> Cardinality({i \in 1..Len(command) : isdigit(command[i])}),
          special_char_count  |-> Cardinality({i \in 1..Len(command) :
                                     ~isalnum(command[i]) /\ ~isspace(command[i])}),
          uppercase_count     |-> Cardinality({i \in 1..Len(command) : isupper(command[i])}),
          path_depth          |-> count(command, <<"/">>),
          suspicious_patterns |-> Len(detected),
          detected_patterns   |-> detected,
          entropy_gt4         |-> entropy_gt4(command),
          has_file_path       |-> contains(<<"/">>, command) \/ contains(<<"\\">>, command) ]

\* A Python float that is a short sum of the weights: c is the exact value in
\* hundredths and d is the sign of (the IEEE-754 double the sum evaluates to)
\* minus (the double that the literal c/100 denotes).
Score(c, d) == [c |-> c, d |-> d]

\* the Python comparison  score >= t/100  against the literal t/100
score_ge(score, t) == score.c > t \/ (score.c = t /\ score.d >= 0)

\* The sums of _heuristic_score that are not the double of their exact value,
\* as <<length > 50, patterns, special > 5, entropy > 4, file path>>;
\* 0.0 (+ 0.2) + n*0.15 (+ 0.1) (+ 0.2) (+ 0.1) evaluated left to right.
FloatBelow == {
    <<0,1,0,1,1>>, <<0,3,0,0,0>>, <<0,3,0,0,1>>, <<0,3,0,1,0>>, <<0,3,0,1,1>>,
    <<0,3,1,0,0>>, <<0,3,1,0,1>>, <<0,4,1,0,1>>, <<0,4,1,1,0>>, <<0,4,1,1,1>>,
    <<0,6,0,0,0>>, <<0,6,0,0,1>>, <<0,6,1,0,0>>, <<1,1,0,0,1>>, <<1,1,1,0,0>>,
    <<1,1,1,0,1>>, <<1,1,1,1,0>>, <<1,1,1,1,1>>, <<1,2,0,1,1>>, <<1,3,0,0,0>>,
    <<1,3,0,0,1>>, <<1,3,0,1,0>>, <<1,3,0,1,1>>, <<1,3,1,0,0>>, <<1,3,1,0,1>> }

FloatAbove == {
    <<0,0,0,1,1>>, <<0,0,1,1,0>>, <<0,2,1,1,0>>, <<0,2,1,1,1>>,
    <<1,0,0,0,1>>, <<1,0,1,0,0>> }

B2N(b) == IF b THEN 1 ELSE 0

\* AIManager._heuristic_score
_heuristic_score(features) ==
    LET L == B2N(features.length > 50)
        n == features.suspicious_patterns
        s == B2N(features.special_char_count > 5)
        e == B2N(features.entropy_gt4)
        f == B2N(features.has_file_path)
        exact == 20 * L + 15 * n + 10 * s + 20 * e + 10 * f
        d == IF <<L, n, s, e, f>> \in FloatBelow THEN -1
             ELSE IF <<L, n, s, e, f>> \in FloatAbove THEN 1 ELSE 0
    IN  IF exact > 100 THEN Score(100, 0) ELSE Score(exact, d)

\* The objects joblib.load can put in AIManager.model.  The estimator is not
\* code of this repository; each handle stands for one kind of outcome of
\* the try block of predict_anomaly:
\*   None       no model file
\*   Raises     scoring raises (scaler not fitted, offset_ not indexable, ...)
\*   Decision   has decision_function; the normalised score is some fixed
\*              function of the feature vector
\*   Predict    has only predict; -1 marks an anomaly
ModelHandles == {"None", "Raises", "Decision", "Predict"}

\* the fixed functions of the feature vector the two sample estimators compute
decision_normalized(features) ==
    100 - Min(100, 12 * features.special_char_count + 4 * features.word_count)

model_predict(features) ==
    IF features.path_depth >= 1 \/ features.suspicious_patterns >= 3 THEN -1 ELSE 1

\* a variant: a model that raises counts as the highest score
predict_anomaly_raise_is_max(model, features) ==
    CASE model = "None"     -> _heuristic_score(features)
      [] model = "Raises"   -> Score(100, 0)
      [] model = "Decision" -> Score(100 - decision_normalized(features), 0)
      [] model = "Predict"  -> IF model_predict(features) = -1
                               THEN Score(100, 0) ELSE Score(0, 0)

\* AIManager.predict_anomaly
predict_anomaly(model, features) ==
    CASE model = "None"     -> _heuristic_score(features)
      [] model = "Raises"   -> _heuristic_score(features)
      [] model = "Decision" -> Score(100 - decision_normalized(features), 0)
      [] model = "Predict"  -> IF model_predict(features) = -1
                               THEN Score(100, 0) ELSE Score(0, 0)

\* a variant: the lowest tier returned is MEDIUM
get_threat_level_medium_floor(anomaly_score) ==
    IF score_ge(anomaly_score, 80) THEN "CRITICAL"
    ELSE IF score_ge(anomaly_score, 60) THEN "HIGH"
    ELSE "MEDIUM"

\* AIManager.get_threat_level
get_threat_level(anomaly_score) ==
    IF score_ge(anomaly_score, 80) THEN "CRITICAL"
    ELSE IF score_ge(anomaly_score, 60) THEN "HIGH"
    ELSE IF score_ge(anomaly_score, 40) THEN "MEDIUM"
    ELSE "LOW"

\* extract_features(command), computed once for each command of the sessions
SessionFeatures == {<<c, extract_features(c)>> : c \in SessionCommands}

features_of(command) ==
    IF command \in SessionCommands
    THEN (CHOOSE p \in SessionFeatures : p[1] = command)[2]
    ELSE extract_features(command)

\* AIManager.validate_command; t is datetime.now()
validate_command(model, command, t) ==
    LET features == features_of(command)
        anomaly_score == predict_anomaly(model, features)
    IN  [ command            |-> command,
          features           |-> features,
          anomaly_score      |-> anomaly_score,
          threat_level       |-> get_threat_level(anomaly_score),
          risk_factors       |-> features.detected_patterns,
          analysis_timestamp |-> t ]

\* -------------------------------------------------------------------------
\* src/honeypot/ai_analysis.py  AIAnalyzer
\* -------------------------------------------------------------------------
\* AIAnalyzer.cache_size
cache_size == 1000

\* datetime.now() is read in whole seconds
\* f"{ip}_{int(datetime.now().timestamp())}"
make_session_id(ip, t) == ip \o <<"_">> \o str(t)

\* AIAnalyzer._detect_attack_patterns
attack_patterns == <<
    [type |-> "privilege_escalation",
     keywords |-> <<<<"s","u","d","o">>, <<"s","u"," ","-">>, <<"s","u"," ","r","o","o","t">>, <<"s","u"," ","-","l">>, <<"s","u"," ","-">>>>],
    [type |-> "file_manipulation",
     keywords |-> <<<<"r","m"," ","-","r","f">>, <<"r","m"," ","-","r","f"," ","/">>, <<"d","d"," ","i","f","=">>, <<"c","a","t"," ",">">>, <<"e","c","h","o"," ",">">>>>],
    [type |-> "system_enumeration",
     keywords |-> <<<<"c","a","t"," ","/","e","t","c","/","p","a","s","s","w","d">>, <<"c","a","t"," ","/","e","t","c","/","s","h","a","d","o","w">>, <<"u","n","a","m","e"," ","-","a">>, <<"p","s"," ","a","u","x">>>>],
    [type |-> "network_scanning",
     keywords |-> <<<<"n","m","a","p">>, <<"m","a","s","s","c","a","n">>, <<"z","m","a","p">>, <<"n","c"," ","-","z">>, <<"n","c"," ","-","v">>>>],
    [type |-> "command_injection",
     keywords |-> <<<<";"," ">>, <<"&","&">>, <<"|","|">>, <<"|">>, <<"<backquote>">>, <<"$","(">>, <<"$","{","{">>>>],
    [type |-> "data_exfiltration",
     keywords |-> <<<<"c","u","r","l">>, <<"w","g","e","t">>, <<"s","c","p">>, <<"r","s","y","n","c">>, <<"n","c","-">>>>],
    [type |-> "service_disruption",
     keywords |-> <<<<"k","i","l","l"," ","-","9">>, <<"k","i","l","l","a","l","l">>, <<"s","y","s","t","e","m","c","t","l"," ","s","t","o","p">>, <<"s","e","r","v","i","c","e"," ","s","t","o","p">>>>],
    [type |-> "malicious_scripting",
     keywords |-> <<<<"p","y","t","h","o","n"," ","-","c">>, <<"b","a","s","h"," ","-","c">>, <<"s","h"," ","-","c">>, <<"c","u","r","l"," ","|"," ","s","h">>>>],
    [type |-> "authentication_bypass",
     keywords |-> <<<<"p","a","s","s","w","d">>, <<"s","s","h","-","c","o","p","y","-","i","d">>, <<"s","s","h","-","k","e","y","g","e","n">>, <<"i","d","_","r","s","a">>>>],
    [type |-> "persistence",
     keywords |-> <<<<"c","r","o","n","t","a","b">>, <<"s","y","s","t","e","m","c","t","l"," ","e","n","a","b","l","e">>, <<".","b","a","s","h","r","c">>, <<".","p","r","o","f","i","l","e">>>>] >>

_detect_attack_patterns(command) ==
    LET command_lower == lower(command)
        hit(p) == \E i \in 1..Len(p.keywords) : contains(p.keywords[i], command_lower)
        hits == SelectSeq(attack_patterns, hit)
    IN  [i \in 1..Len(hits) |-> hits[i].type]

\* AIAnalyzer._calculate_complexity, in hundredths
_calculate_complexity(command) ==
    LET len_score == IF Len(command) > 50 THEN 20
                     ELSE IF Len(command) > 100 THEN 40 ELSE 0
        score == len_score
                 + count(command, <<"|">>) * 10
                 + count(command, <<";">>) * 10
                 + count(command, <<"&","&">>) * 15
                 + count(command, <<"|","|">>) * 15
                 + count(command, <<"$","(">>) * 20
                 + count(command, <<"<backquote>">>) * 15
                 + count(command, <<">">>) * 5
                 + count(command, <<"<">>) * 5
                 + count(command, <<"2",">","&","1">>) * 10
                 + (IF word_count(command) > 5 THEN 10 ELSE 0)
    IN  Min(100, score)

\* The analysis cache is a Python dict: its items in insertion order
cache_keys(cache) == {cache[i].key : i \in 1..Len(cache)}

cache_get(cache, key) == (CHOOSE i \in 1..Len(cache) : cache[i].key = key)

\* dict[key] = value: a present key keeps its place, a new key goes last
dict_set(cache, key, value) ==
    IF key \in cache_keys(cache)
    THEN [cache EXCEPT ![cache_get(cache, key)].value = value]
    ELSE Append(cache, [key |-> key, value |-> value])

\* a variant: the entries removed are the ones inserted last
_cache_analysis_evict_newest(cache, cache_key, analysis) ==
    LET kept == IF Len(cache) >= cache_size
                THEN SubSeq(cache, 1, Len(cache) - cache_size \div 5)
                ELSE cache
    IN  dict_set(kept, cache_key, analysis)

\* AIAnalyzer._cache_analysis
_cache_analysis(cache, cache_key, analysis) ==
    LET kept == IF Len(cache) >= cache_size
                THEN SubSeq(cache, cache_size \div 5 + 1, Len(cache))
                ELSE cache
    IN  dict_set(kept, cache_key, analysis)

\* AIAnalyzer._fallback_analysis
_fallback_analysis(command, ip, t) ==
    [ command         |-> command,
      ip              |-> ip,
      anomaly_score   |-> Score(50, 0),
      threat_level    |-> "MEDIUM",
      risk_factors    |-> << <<"a","n","a","l","y","s","i","s","_","e","r","r","o","r">> >>,
      timestamp       |-> t,
      analysis_method |-> "fallback" ]

\* f"{ip}:{command}"
make_cache_key(ip, command) == ip \o <<":">> \o command

\* _detect_attack_patterns(command) and _calculate_complexity(command),
\* computed once for each command of the sessions
SessionContext ==
    {<<c, [attack_patterns  |-> _detect_attack_patterns(c),
           complexity_score |-> _calculate_complexity(c)]>> : c \in SessionCommands}

context_of(command) ==
    IF command \in SessionCommands
    THEN (CHOOSE p \in SessionContext : p[1] = command)[2]
    ELSE [attack_patterns  |-> _detect_attack_patterns(command),
          complexity_score |-> _calculate_complexity(command)]

\* the analysis a cache miss computes (analyze_command, "Perform analysis"
\* to "complexity_score")
fresh_analysis(model, command, ip, t) ==
    LET v == validate_command(model, command, t)
    IN  [ command            |-> v.command,
          features           |-> v.features,
          anomaly_score      |-> v.anomaly_score,
          threat_level       |-> v.threat_level,
          risk_factors       |-> v.risk_factors,
          analysis_timestamp |-> v.analysis_timestamp,
          ip                 |-> ip,
          timestamp          |-> t,
          session_id         |-> make_session_id(ip, t),
          attack_patterns    |-> context_of(command).attack_patterns,
          complexity_score   |-> context_of(command).complexity_score ]

\* a variant: the cache is not consulted
analyze_command_uncached(cache, model, command, ip, t, raises) ==
    IF raises
    THEN [analysis |-> _fallback_analysis(command, ip, t), cache |-> cache, hit |-> FALSE]
    ELSE LET analysis == fresh_analysis(model, command, ip, t)
         IN  [analysis |-> analysis,
              cache    |-> _cache_analysis(cache, make_cache_key(ip, command), analysis),
              hit      |-> FALSE]

\* AIAnalyzer.analyze_command: the returned analysis and the cache it leaves.
\* raises says that the try block raised before the result was cached.
analyze_command(cache, model, command, ip, t, raises) ==
    LET cache_key == make_cache_key(ip, command)
    IN  IF cache_key \in cache_keys(cache)
        THEN [analysis |-> cache[cache_get(cache, cache_key)].value,
              cache    |-> cache,
              hit      |-> TRUE]
        ELSE IF raises
        THEN [analysis |-> _fallback_analysis(command, ip, t),
              cache    |-> cache,
              hit      |-> FALSE]
        ELSE LET analysis == fresh_analysis(model, command, ip, t)
             IN  [analysis |-> analysis,
                  cache    |-> _cache_analysis(cache, cache_key, analysis),
                  hit      |-> FALSE]

\* -------------------------------------------------------------------------
\* src/honeypot/handlers.py  ConnectionHandler
\* -------------------------------------------------------------------------
\* _append_to_json: "Keep only last 10000 entries"
max_log_entries == 10000

\* A log file: ok says that it parses as JSON, entries is the list it holds.
\* _ensure_log_files writes [] into a missing file.
EmptyLog == [ok |-> TRUE, entries |-> <<>>]

\* What the file system under /app/data does at one call of log_command:
\*   ok      reads and writes succeed
\*   denied  open(file, 'w') and open(file, 'a') raise, nothing is changed
\*   full    open(file, 'w') truncates the file and json.dump then raises
FsStates == {"ok", "denied", "full"}

\* a variant: the first 10000 entries are kept
first_entries(logs, n) ==
    IF Len(logs) > n THEN SubSeq(logs, 1, n) ELSE logs

\* logs[-10000:]
last_entries(logs, n) ==
    IF Len(logs) > n THEN SubSeq(logs, Len(logs) - n + 1, Len(logs)) ELSE logs

\* a variant: the file is written without the entries read from it
_append_to_json_overwrite(file, data, fs) ==
    IF ~file.ok THEN file
    ELSE CASE fs = "ok"     -> [ok |-> TRUE, entries |-> <<data>>]
           [] fs = "denied" -> file
           [] fs = "full"   -> [ok |-> FALSE, entries |-> <<>>]

\* ConnectionHandler._append_to_json: the file it leaves
_append_to_json(file, data, fs) ==
    IF ~file.ok THEN file                      \* json.load raises
    ELSE LET logs == last_entries(Append(file.entries, data), max_log_entries)
         IN  CASE fs = "ok"     -> [ok |-> TRUE, entries |-> logs]
               [] fs = "denied" -> file
               [] fs = "full"   -> [ok |-> FALSE, entries |-> <<>>]

\* ConnectionHandler._append_to_tsv: the rows it leaves
_append_to_tsv(rows, row, fs) ==
    IF fs = "ok" THEN Append(rows, row) ELSE rows

\* command.replace('\t', '\\t').replace('\n', '\\n')
RECURSIVE safe_command(_)
safe_command(c) ==
    IF c = <<>> THEN <<>>
    ELSE (CASE Head(c) = "\t" -> <<"\\","t">>
            [] Head(c) = "\n" -> <<"\\","n">>
            [] OTHER          -> <<Head(c)>>) \o safe_command(Tail(c))

\* a variant: no except clause, a failed write leaves log_command as an exception
log_command_uncaught(files, command, ip, analysis, t, fs, cid, conn) ==
    [ files  |-> IF fs = "full"
                 THEN [files EXCEPT !.sessions = [ok |-> FALSE, entries |-> <<>>]]
                 ELSE files,
      raised |-> fs # "ok" ]

\* ConnectionHandler.log_command: the three files it leaves, and whether an
\* exception leaves it (none does: "except Exception" ends the body).  cid is
\* not a field of any file: it numbers the processed commands in the order of
\* stats["commands"], to tell two equal entries apart; nor is conn, the
\* connection whose handle_client task makes the call.
log_command(files, command, ip, analysis, t, fs, cid, conn) ==
    LET session_entry ==
            [ cid           |-> cid,
              conn          |-> conn,
              session_id    |-> make_session_id(ip, t),
              timestamp     |-> t,
              ip            |-> ip,
              command       |-> command,
              analysis      |-> analysis,
              threat_level  |-> analysis.threat_level,
              anomaly_score |-> analysis.anomaly_score ]
        command_entry ==
            [ cid           |-> cid,
              timestamp     |-> t,
              ip            |-> ip,
              command       |-> command,
              threat_level  |-> analysis.threat_level,
              anomaly_score |-> analysis.anomaly_score ]
        tsv_row ==
            [ cid           |-> cid,
              timestamp     |-> t,
              ip            |-> ip,
              command       |-> safe_command(command),
              threat_level  |-> analysis.threat_level,
              anomaly_score |-> analysis.anomaly_score ]
    IN  [ files  |-> [ sessions |-> _append_to_json(files.sessions, session_entry, fs),
                       commands |-> _append_to_json(files.commands, command_entry, fs),
                       tsv      |-> _append_to_tsv(files.tsv, tsv_row, fs) ],
          raised |-> FALSE ]

\* ConnectionHandler._get_command_response: the canned text is named by its
\* first line, arg is the part taken from the command
Canned(text) == [body |-> text, arg |-> <<>>]

_get_command_response(command, t) ==
    LET command_lower == lower(command)
    IN  IF startswith(command_lower, <<"l","s">>)
        THEN IF contains(<<"-","l","a">>, command_lower) \/ contains(<<"-","a">>, command_lower)
             THEN Canned("total 84 ...")
             ELSE Canned("backups  config.ini  cronjob.sh  data  deploy.sh  logs  temp  update.sh  watchdog.sh")
        ELSE IF command_lower = <<"p","w","d">> THEN Canned("/root")
        ELSE
          IF command_lower = <<"w","h","o","a","m","i">> THEN Canned("root")
          ELSE IF startswith(command_lower, <<"u","n","a","m","e">>) THEN Canned("Linux server 5.4.0-94-generic ...")
          ELSE IF command_lower = <<"i","d">> THEN Canned("uid=0(root) gid=0(root) groups=0(root)")
          ELSE IF startswith(command_lower, <<"p","s"," ","a","u","x">>) THEN Canned("USER       PID %CPU %MEM ...")
          ELSE IF startswith(command_lower, <<"c","a","t"," ","/","e","t","c","/","p","a","s","s","w","d">>) THEN Canned("root:x:0:0:root:/root:/bin/bash ...")
          ELSE IF startswith(command_lower, <<"n","e","t","s","t","a","t">>) THEN Canned("Active Internet connections (only servers) ...")
          ELSE IF startswith(command_lower, <<"c","u","r","l">>) \/ startswith(command_lower, <<"w","g","e","t">>)
               THEN Canned("Connected to example.com (93.184.216.34:80) ...")
          ELSE IF startswith(command_lower, <<"p","y","t","h","o","n">>) THEN Canned("Python 3.8.10 (default, Jun 22 2022, 20:18:18) ...")
          ELSE IF startswith(command_lower, <<"d","a","t","e">>) THEN [body |-> "Mon Jan 15 %H:%M:%S UTC 2024", arg |-> str(t)]
          ELSE IF startswith(command_lower, <<"u","p","t","i","m","e">>) THEN Canned(" 10:30:45 up 23 days, 8:45, 1 user, load average: 0.08, 0.03, 0.00")
          ELSE IF startswith(command_lower, <<"f","r","e","e">>) THEN Canned("              total        used        free ...")
          ELSE IF startswith(command_lower, <<"d","f">>) THEN Canned("Filesystem     Size  Used Avail Use% Mounted on ...")
          ELSE IF startswith(command_lower, <<"h","i","s","t","o","r","y">>) THEN Canned("   1  ls -la ...")
          ELSE IF startswith(command_lower, <<"e","n","v">>) THEN Canned("PATH=/usr/local/sbin:/usr/local/bin:/usr/sbin:/usr/bin:/sbin:/bin ...")
          ELSE IF startswith(command_lower, <<"e","c","h","o">>)
               THEN [body |-> "\"%s\"", arg |-> strip(SubSeq(command, 5, Len(command)))]
          ELSE IF startswith(command_lower, <<"t","o","u","c","h">>)
               THEN [body |-> "touch: creating file '%s': Permission denied",
                     arg  |-> strip(SubSeq(command, 6, Len(command)))]
          ELSE IF startswith(command_lower, <<"m","k","d","i","r">>) THEN Canned("mkdir: cannot create directory 'test': File exists")
          ELSE IF startswith(command_lower, <<"r","m">>) THEN Canned("rm: cannot remove '/root/test': No such file or directory")
          ELSE IF startswith(command_lower, <<"s","u"," ">>) \/ startswith(command_lower, <<"s","u","d","o">>)
               THEN Canned("Authenticate as super user:")
          ELSE [body |-> "-bash: %s: command not found", arg |-> first_word(command)]

\* ConnectionHandler._add_suspicious_output: the lines random.choice draws from
suspicious_indicators == <<
    "\nWarning: Suspicious activity detected",
    "\nSystem integrity check initiated...",
    "\nAccess denied to secure component",
    "\n[ALERT] Security module activated",
    "\nMonitoring command execution..." >>

\* ConnectionHandler._add_warning_output: the lines random.choice draws from
warning_outputs == <<
    "\nNote: Command logged for security audit",
    "\nWarning: Unusual command pattern detected",
    "\nSystem monitoring active" >>

\* what random.choice may return for a list of n items, given the draw r
RandomDraws == 1..5

random_choice(items, r) == items[((r - 1) % Len(items)) + 1]

_add_suspicious_output(command, r) == random_choice(suspicious_indicators, r)

_add_warning_output(command, r) == random_choice(warning_outputs, r)

PromptText == "\n[root@server ~]# "

\* a variant: only HIGH gets a line from the suspicious set
generate_response_high_only(command, analysis, t, r) ==
    LET threat_level == analysis.threat_level
        base == _get_command_response(strip(command), t)
    IN  [ body   |-> base.body,
          arg    |-> base.arg,
          extra  |-> IF threat_level = "HIGH"
                     THEN _add_suspicious_output(command, r)
                     ELSE IF threat_level = "MEDIUM"
                     THEN _add_warning_output(command, r)
                     ELSE "",
          prompt |-> PromptText ]

\* ConnectionHandler.generate_response: base response, threat-based extra
\* line, prompt
generate_response(command, analysis, t, r) ==
    LET threat_level == analysis.threat_level
        base == _get_command_response(strip(command), t)
    IN  [ body   |-> base.body,
          arg    |-> base.arg,
          extra  |-> IF threat_level \in {"HIGH", "CRITICAL"}
                     THEN _add_suspicious_output(command, r)
                     ELSE IF threat_level = "MEDIUM"
                     THEN _add_warning_output(command, r)
                     ELSE "",
          prompt |-> PromptText ]

\* -------------------------------------------------------------------------
\* src/honeypot/telegram_alert.py  TelegramManager
\* -------------------------------------------------------------------------
\* a variant: the bot token alone decides
is_configured_token_only(bot_token, chat_id) == bot_token

\* str.replace(old, new) for a one-character old
RECURSIVE str_replace(_, _, _)
str_replace(s, old, new) ==
    IF s = <<>> THEN <<>>
    ELSE IF Len(s) = 1 THEN (IF s[1] = old THEN new ELSE s)
    ELSE LET half == Len(s) \div 2
         IN  str_replace(SubSeq(s, 1, half), old, new)
             \o str_replace(SubSeq(s, half + 1, Len(s)), old, new)

\* TelegramManager.max_message_length
max_message_length == 4096

\* TelegramManager._sanitize_command
_sanitize_command(command) ==
    LET safe == str_replace(str_replace(str_replace(command, "<", <<"&","l","t",";">>),
                                        ">", <<"&","g","t",";">>), "&", <<"&","a","m","p",";">>)
    IN  IF Len(safe) > 500 THEN SubSeq(safe, 1, 500) \o <<".",".","."," ","[","t","r","u","n","c","a","t","e","d","]">> ELSE safe

\* send_alert: the message, with each emoji as one character "(emoji)" and
\* the score and the time as they are formatted
alert_message(escaped, ip, threat_level, score_text, time_text) ==
    <<"(emoji)">> \o <<" ","<","b",">","A","I","M","L"," ","H","o","n","e","y","p","o","t"," ","A","l","e","r","t","<","/","b",">">> \o <<"\n">>
    \o <<"(emoji)">> \o <<" ","<","b",">","S","o","u","r","c","e"," ","I","P",":","<","/","b",">"," ","<","c","o","d","e",">">> \o ip \o <<"<","/","c","o","d","e",">">> \o <<"\n">>
    \o <<"(emoji)">> \o <<" ","<","b",">","T","h","r","e","a","t"," ","L","e","v","e","l",":","<","/","b",">"," ">> \o threat_level \o <<"\n">>
    \o <<"(emoji)">> \o <<" ","<","b",">","A","t","t","e","m","p","t","e","d"," ","C","o","m","m","a","n","d",":","<","/","b",">">> \o <<"\n">>
    \o <<"<","p","r","e",">">> \o escaped \o <<"<","/","p","r","e",">">> \o <<"\n">>
    \o <<"(emoji)">> \o <<" ","<","b",">","A","n","o","m","a","l","y"," ","S","c","o","r","e",":","<","/","b",">"," ">> \o score_text \o <<"\n">>
    \o <<"(emoji)">> \o <<" ","<","b",">","T","i","m","e",":","<","/","b",">"," ">> \o time_text \o <<"\n">>
    \o <<"\n">> \o <<"(emoji)">> \o <<" ","<","b",">","D","e","t","e","c","t","e","d"," ","b","y"," ","A","I","M","L"," ","H","o","n","e","y","p","o","t","<","/","b",">">>

\* _send_message: text[:self.max_message_length - 3] + "..." if too long
message_text(text) ==
    IF Len(text) > max_message_length
    THEN SubSeq(text, 1, max_message_length - 3) \o <<".",".",".">>
    ELSE text

\* TelegramManager.is_configured
is_configured(bot_token, chat_id) == bot_token /\ chat_id

\* what the network does with one request
NetStates == {"up", "down"}

\* TelegramManager._send_message: requests.post and the three except clauses
_send_message(net) ==
    [ posts  |-> 1,
      result |-> (net = "up") ]

\* TelegramManager.send_alert: the number of requests made and the result
send_alert(bot_token, chat_id, net) ==
    IF ~is_configured(bot_token, chat_id)
    THEN [posts |-> 0, result |-> FALSE]
    ELSE _send_message(net)

\* -------------------------------------------------------------------------
\* src/backend/aetherion_app.py  analyze_command_threat
\* -------------------------------------------------------------------------
\* threat_patterns with, for each category, the bucket of threat_scoring its
\* matches add to and the amount per matching pattern, in hundredths
threat_patterns == <<
    [category |-> "system_destruction", bucket |-> "system_modification", weight |-> 30,
     patterns |-> <<<<"r","m"," ","-","r","f","/">>, <<"d","e","l"," ","/","f">>, <<"f","o","r","m","a","t"," ","c",":">>, <<"m","k","f","s">>, <<"d","d"," ","i","f","=">>>>],
    [category |-> "privilege_escalation", bucket |-> "privilege_escalation", weight |-> 25,
     patterns |-> <<<<"s","u","d","o">>, <<"s","u"," ","-">>, <<"c","h","m","o","d"," ","+","s">>, <<"s","e","t","u","i","d">>, <<"p","a","s","s","w","d">>>>],
    [category |-> "data_access", bucket |-> "data_access", weight |-> 20,
     patterns |-> <<<<"c","a","t"," ","/","e","t","c","/","p","a","s","s","w","d">>, <<"c","a","t"," ","/","e","t","c","/","s","h","a","d","o","w">>, <<"c","a","t"," ","/","p","r","o","c","/">>, <<"s","t","r","i","n","g","s"," ">>>>],
    [category |-> "network_exploitation", bucket |-> "network_activity", weight |-> 22,
     patterns |-> <<<<"n","c"," ","-","l">>, <<"n","c"," ">>, <<"n","e","t","c","a","t">>, <<"t","e","l","n","e","t">>, <<"s","s","h"," ","-","i">>>>],
    [category |-> "code_execution", bucket |-> "code_execution", weight |-> 28,
     patterns |-> <<<<"p","y","t","h","o","n"," ","-","c">>, <<"b","a","s","h"," ","-","c">>, <<"s","h"," ","-","c">>, <<"e","v","a","l","(">>, <<"e","x","e","c","(">>>>],
    [category |-> "system_reconnaissance", bucket |-> "information_gathering", weight |-> 18,
     patterns |-> <<<<"w","h","o","a","m","i">>, <<"i","d">>, <<"u","n","a","m","e"," ","-","a">>, <<"p","s"," ","a","u","x">>, <<"n","e","t","s","t","a","t">>>>],
    [category |-> "file_manipulation", bucket |-> "system_modification", weight |-> 15,
     patterns |-> <<<<"c","h","m","o","d"," ","+","x">>, <<"m","v"," ">>, <<"c","p"," ">>, <<"t","o","u","c","h"," ">>, <<"m","k","d","i","r"," ">>>>] >>

\* the keys of threat_scoring, in insertion order
threat_buckets == << "command_complexity", "suspicious_patterns", "privilege_escalation",
                     "data_access", "system_modification", "network_activity",
                     "code_execution", "information_gathering" >>

\* what the loop over threat_patterns adds to one bucket
pattern_score(bucket, command_lower) ==
    SumSeq([k \in 1..Len(threat_patterns) |->
              IF threat_patterns[k].bucket = bucket
              THEN threat_patterns[k].weight *
                   Cardinality({j \in 1..Len(threat_patterns[k].patterns) :
                                  contains(threat_patterns[k].patterns[j], command_lower)})
              ELSE 0])

\* ip and not any(x in ip for x in ['192.168', '10.', '172.16', '127.', '::1'])
external_ip(ip) ==
    /\ ip # <<>>
    /\ ~ \E x \in {<<"1","9","2",".","1","6","8">>, <<"1","0",".">>, <<"1","7","2",".","1","6">>, <<"1","2","7",".">>, <<":",":","1">>} : contains(x, ip)

\* get_geographic_info(ip)["type"]
get_geographic_info_type(ip) ==
    IF startswith(ip, <<"1","9","2",".","1","6","8">>) \/ startswith(ip, <<"1","0",".">>) \/ startswith(ip, <<"1","7","2",".","1","6">>)
    THEN "Private"
    ELSE IF startswith(ip, <<"1","2","7",".">>) \/ ip = <<":",":","1">> THEN "Local"
    ELSE "External"

\* threat_scoring when the score is computed, in hundredths
threat_scoring(command, ip) ==
    LET command_lower == strip(lower(command))
        special_chars == Cardinality({i \in 1..Len(command) :
                                        ~isalnum(command[i]) /\ command[i] # " "})
        complexity == IF Len(command) > 150 THEN 20
                      ELSE IF Len(command) > 100 THEN 15 ELSE 0
        suspicious ==
              (IF command # <<>> /\ 10 * special_chars > 3 * Len(command) THEN 20 ELSE 0)
            + (IF contains(<<"&","&">>, command) \/ contains(<<"|","|">>, command)
                  \/ contains(<<";">>, command) THEN 15 ELSE 0)
            + (IF contains(<<"$","(","(">>, command) \/ contains(<<"<backquote>">>, command) THEN 18 ELSE 0)
            + (IF count(command, <<"\"">>) > 2 \/ count(command, <<"'">>) > 4 THEN 12 ELSE 0)
        network == pattern_score("network_activity", command_lower)
                   + (IF external_ip(ip) THEN 8 ELSE 0)
    IN  [ command_complexity    |-> complexity,
          suspicious_patterns   |-> suspicious,
          privilege_escalation  |-> pattern_score("privilege_escalation", command_lower),
          data_access           |-> pattern_score("data_access", command_lower),
          system_modification   |-> pattern_score("system_modification", command_lower),
          network_activity      |-> network,
          code_execution        |-> pattern_score("code_execution", command_lower),
          information_gathering |-> pattern_score("information_gathering", command_lower) ]

\* The score as a Python float: c is the exact value in units of 0.0001 and d
\* the sign of the error the float additions and the multiplication leave
\* (err: nothing about it is assumed).
\* min(1.0, total_score * 0.75)
threat_anomaly_score(scoring, err) ==
    LET total == SumSeq([k \in 1..Len(threat_buckets) |-> scoring[threat_buckets[k]]])
    IN  IF 75 * total >= 10000 THEN Score(10000, 0) ELSE Score(75 * total, err)

\* round(anomaly_score, 6): the float nearest to the six-digit decimal
round6(score) == Score(score.c, 0)

\* a variant: the boundaries 0.8, 0.6 and 0.4 of AIManager.get_threat_level
threat_tier_session_boundaries(anomaly_score) ==
    IF score_ge(anomaly_score, 8000) THEN [threat_level |-> "CRITICAL", confidence |-> 96]
    ELSE IF score_ge(anomaly_score, 6000) THEN [threat_level |-> "HIGH", confidence |-> 88]
    ELSE IF score_ge(anomaly_score, 4000) THEN [threat_level |-> "MEDIUM", confidence |-> 72]
    ELSE [threat_level |-> "LOW", confidence |-> 52]

\* "Determine professional threat level"
threat_tier(anomaly_score) ==
    IF score_ge(anomaly_score, 8500) THEN [threat_level |-> "CRITICAL", confidence |-> 96]
    ELSE IF score_ge(anomaly_score, 6500) THEN [threat_level |-> "HIGH", confidence |-> 88]
    ELSE IF score_ge(anomaly_score, 3500) THEN [threat_level |-> "MEDIUM", confidence |-> 72]
    ELSE [threat_level |-> "LOW", confidence |-> 52]

\* a variant: information gathering gives no indicator
threat_indicators_no_reconnaissance(scoring) ==
    LET all == << <<scoring.privilege_escalation > 20, "Privilege Escalation Attempt">>,
                  <<scoring.code_execution > 20, "Code Execution Pattern">>,
                  <<scoring.system_modification > 25, "System Modification Threat">>,
                  <<scoring.data_access > 15, "Unauthorized Data Access">>,
                  <<scoring.network_activity > 15, "Suspicious Network Activity">>,
                  <<scoring.suspicious_patterns > 20, "Advanced Attack Patterns">> >>
        hits == SelectSeq(all, LAMBDA x : x[1])
    IN  [i \in 1..Len(hits) |-> hits[i][2]]

\* "Extract professional indicators"
threat_indicators(scoring) ==
    LET all == << <<scoring.privilege_escalation > 20, "Privilege Escalation Attempt">>,
                  <<scoring.code_execution > 20, "Code Execution Pattern">>,
                  <<scoring.system_modification > 25, "System Modification Threat">>,
                  <<scoring.data_access > 15, "Unauthorized Data Access">>,
                  <<scoring.network_activity > 15, "Suspicious Network Activity">>,
                  <<scoring.information_gathering > 15, "Reconnaissance Activity">>,
                  <<scoring.suspicious_patterns > 20, "Advanced Attack Patterns">> >>
        hits == SelectSeq(all, LAMBDA x : x[1])
    IN  [i \in 1..Len(hits) |-> hits[i][2]]

\* a variant: privilege escalation is tested before system modification
threat_attack_vector_privilege_first(scoring) ==
    IF scoring.privilege_escalation > 20 THEN "Privilege Escalation"
    ELSE IF scoring.system_modification > 25 THEN "System Destruction"
    ELSE IF scoring.code_execution > 25 THEN "Code Injection"
    ELSE IF scoring.data_access > 18 THEN "Data Exfiltration"
    ELSE IF scoring.network_activity > 20 THEN "Network Intrusion"
    ELSE IF scoring.information_gathering > 15 THEN "Reconnaissance"
    ELSE "Generic Command"

\* "Classify attack vector professionally"
threat_attack_vector(scoring) ==
    IF scoring.system_modification > 25 THEN "System Destruction"
    ELSE IF scoring.privilege_escalation > 20 THEN "Privilege Escalation"
    ELSE IF scoring.code_execution > 25 THEN "Code Injection"
    ELSE IF scoring.data_access > 18 THEN "Data Exfiltration"
    ELSE IF scoring.network_activity > 20 THEN "Network Intrusion"
    ELSE IF scoring.information_gathering > 15 THEN "Reconnaissance"
    ELSE "Generic Command"

\* the zero-padded two digits of strftime's %m and %d
two_digits(n) == IF n < 10 THEN <<"0">> \o str(n) ELSE str(n)

\* a variant: the fields of the date are not padded
strftime_Ymd_unpadded(t) == str(t.year) \o str(t.month) \o str(t.day)

\* a variant: the hour is part of the text
strftime_Ymd_with_hour(t) ==
    str(t.year) \o two_digits(t.month) \o two_digits(t.day) \o two_digits(t.hour)

\* datetime.strftime('%Y%m%d') of t = [year, month, day, hour]
strftime_Ymd(t) == str(t.year) \o two_digits(t.month) \o two_digits(t.day)

\* analyze_command_threat; t is what datetime.now() returns during the call
analyze_command_threat(command, ip, t, err) ==
    LET scoring == threat_scoring(command, ip)
        anomaly_score == threat_anomaly_score(scoring, err)
        tier == threat_tier(anomaly_score)
    IN  [ threat_level      |-> tier.threat_level,
          anomaly_score     |-> round6(anomaly_score),
          confidence        |-> tier.confidence,
          attack_vector     |-> threat_attack_vector(scoring),
          indicators        |-> threat_indicators(scoring),
          scoring_breakdown |-> scoring,
          signature_data    |-> command \o <<":">> \o ip \o <<":">> \o strftime_Ymd(t),
          analyzer_version  |-> "AetherionBot 1.0" ]

\* -------------------------------------------------------------------------
\* src/honeypot/server.py  HoneypotServer
\* -------------------------------------------------------------------------
\* Bounds of the model
MaxSessions == 2
MaxLines == 2
MaxTime == 1
MaxEvents == 1

Sessions == 1..MaxSessions

\* peer addresses (client_addr[0])
ClientIPs == << <<"1","0",".","0",".","0",".","5">>, <<"2","0","3",".","0",".","1","1","3",".","2","5">> >>

\* the model file the server is started with, and its Telegram settings
ServerModels == {"None"}
TelegramEnv == { <<TRUE, TRUE>>, <<FALSE, TRUE>>, <<TRUE, FALSE>> }

\* datetime.now(): not before the last time read
Clock(t) == {u \in t..(t + 1) : u <= MaxTime}

NoAnalysis == [threat_level |-> "NONE"]
NoTrace == [cid |-> 0, level |-> "NONE", steps |-> <<>>, done |-> FALSE]

VARIABLES
    pc,                 \* the await each handle_client task is suspended at
    client_addr,        \* peer address of each connection
    session_command,    \* handle_client local: the stripped line
    session_analysis,   \* handle_client local
    written,            \* what was passed to writer.write, in order
    trace,              \* history: the steps taken for the session's last command
    lines_read,         \* history: number of lines readline has returned
    unlogged,           \* history: the commands whose log write failed
    events,             \* history: number of disturbances from outside so far
    stats,              \* HoneypotServer.stats
    active_connections, \* HoneypotServer.active_connections
    writer_closed,      \* writer.close() was called on the connection
    listening,          \* the server socket accepts connections
    shutdown_pc,        \* the _shutdown task: "none", "scheduled", "done"
    analysis_cache,     \* AIAnalyzer.analysis_cache
    ai_model,           \* AIManager.model
    now,                \* the last value datetime.now() returned
    log_files,          \* sessions.json, commands.json, commands.tsv
    bot_token,          \* TELEGRAM_BOT_TOKEN is set
    chat_id,            \* TELEGRAM_CHAT_ID is set
    outbound,           \* history: number of requests made to the Telegram API
    api,                \* the request the backend's /analyze route is given, and its result
    calls,              \* batch_analyze: the number of commands analyzed so far
    returned,           \* batch_analyze: what the last analyze_command call returned
    rendered,           \* what the last generate_response call was given and returned
    threat_intel,       \* THREATS_FILE, the requests being served by /analyze, and history
    alert_text,         \* send_alert: the command it is given, and the text it sends
    simple,             \* SimpleHoneypot: its listening socket, its tasks, its sessions file
    json_log,           \* one JSON log file and the calls of _append_to_json on it
    ws                  \* ConnectionManager: its connections and the broadcast under way

vars == << pc, client_addr, session_command, session_analysis, written, trace,
           lines_read, unlogged, events, stats, active_connections, writer_closed,
           listening, shutdown_pc, analysis_cache, ai_model, now, log_files,
           bot_token, chat_id, outbound, api, calls, returned, rendered,
           threat_intel, alert_text, simple, json_log, ws >>

session_vars == << pc, client_addr, session_command, session_analysis, written, trace,
                   lines_read, unlogged >>
server_vars == << stats, active_connections, writer_closed, listening, shutdown_pc >>
analyzer_vars == << analysis_cache, ai_model >>
alert_vars == << bot_token, chat_id, outbound >>
caller_vars == << api, calls, returned, rendered, threat_intel, alert_text, simple, json_log, ws >>

\* the clock of the backend before any request
Epoch == [year |-> 1970, month |-> 1, day |-> 1, hour |-> 0]

\* api.previous when no request was answered before the current one
NoPrevious == [command |-> <<>>, ip |-> <<>>, day |-> Epoch,
               result |-> [threat_level |-> "NONE"]]

NoRequest == [command |-> <<>>, ip |-> <<>>, day |-> Epoch, err |-> 0, parts |-> 0,
              assessed |-> FALSE, result |-> [threat_level |-> "NONE"],
              previous |-> NoPrevious]
NoCall == [key |-> <<>>, hit |-> FALSE, analysis |-> NoAnalysis, model |-> "None",
           ip |-> <<>>, command |-> <<>>]

\* rendered before generate_response was called: no call, and none before it
NoRender == << >>

\* SimpleHoneypot before run(): nothing listens, data/sessions.json holds []
NoSimple == [run_server |-> "accept", backlog |-> <<>>, tasks |-> <<>>, sessions |-> <<>>,
             received |-> 0]

\* no call of _append_to_json yet, on a file that holds []
NoJsonLog == [file |-> [ok |-> TRUE, entries |-> <<>>], held |-> 0, appended |-> <<>>,
              before |-> <<>>]

\* ConnectionManager.__init__: no connection, no broadcast
NoWs == [active_connections |-> <<>>, working |-> {}, connected |-> 0, iter |-> 0,
         sending |-> 0, started |-> <<>>, attempted |-> {}, failed |-> {},
         broadcasts |-> 0]

\* no alert composed yet
NoAlertText == [command |-> <<>>, parts |-> 0, sent |-> FALSE, safe |-> <<>>, text |-> <<>>]

\* the worker threads that serve the backend's routes
Workers == 1..2

\* a worker thread that serves no request
NoWorker == [pc |-> "idle", ip |-> <<>>, analysis |-> [threat_level |-> "NONE"],
             loaded |-> {}, at |-> 0]

\* no THREATS_FILE, no request being served, none served before
NoIntel == [file |-> {}, workers |-> [w \in Workers |-> NoWorker],
            made |-> {}, overlapped |-> FALSE]

\* HoneypotServer.__init__ and the constructors it calls, but for the model
\* file and the Telegram settings found
InitServer ==
    /\ pc = [s \in Sessions |-> "idle"]
    /\ client_addr = [s \in Sessions |-> <<>>]
    /\ session_command = [s \in Sessions |-> <<>>]
    /\ session_analysis = [s \in Sessions |-> NoAnalysis]
    /\ written = [s \in Sessions |-> <<>>]
    /\ trace = [s \in Sessions |-> NoTrace]
    /\ lines_read = 0
    /\ unlogged = {}
    /\ events = 0
    /\ stats = [connections |-> 0, commands |-> 0, threats |-> 0]
    /\ active_connections = <<>>
    /\ writer_closed = [s \in Sessions |-> FALSE]
    /\ listening = TRUE
    /\ shutdown_pc = "none"
    /\ analysis_cache = <<>>
    /\ now = 0
    /\ log_files = [sessions |-> EmptyLog, commands |-> EmptyLog, tsv |-> <<>>]
    /\ outbound = 0

\* no request to the backend and no batch under way
InitCallers ==
    /\ api = NoRequest
    /\ calls = 0
    /\ returned = NoCall
    /\ rendered = NoRender
    /\ threat_intel = NoIntel
    /\ alert_text = NoAlertText
    /\ simple = NoSimple
    /\ json_log = NoJsonLog
    /\ ws = NoWs

Init ==
    /\ InitServer
    /\ ai_model \in ServerModels
    /\ \E env \in TelegramEnv : bot_token = env[1] /\ chat_id = env[2]
    /\ InitCallers

\* ---- HoneypotServer.handle_client ----
\* The server is one asyncio event loop: a task runs from one await that
\* suspends to the next without another task running in between.  The awaits
\* that suspend are writer.drain(), reader.readline() and
\* writer.wait_closed(); analyze_command, log_command, generate_response,
\* send_alert and _notify_backend contain no await that suspends.  Each
\* action below is the code a task runs from one such await to the next.

\* list.remove(x)
list_remove(list, x) ==
    LET i == CHOOSE j \in 1..Len(list) : list[j] = x /\ \A k \in 1..(j-1) : list[k] # x
    IN  SubSeq(list, 1, i - 1) \o SubSeq(list, i + 1, Len(list))

\* x in list
list_has(list, x) == \E i \in 1..Len(list) : list[i] = x

\* a disturbance from outside (a clock tick, a failed analysis, a failed log
\* write, a lost connection, a signal) is possible while the budget lasts
disturb(n) ==
    /\ events + n <= MaxEvents
    /\ events' = events + n

\* The event loop runs its tasks on one thread.  requests.post is an ordinary
\* blocking call: while a task is inside it (pc = "alerting") the thread is
\* not in the loop and no task, callback or accept is run.
loop_free == \A s \in Sessions : pc[s] # "alerting"

\* a client connects: asyncio accepts and creates the handle_client task.
\* Connections are numbered in the order they are made; the first comes from
\* the first address, a later one from the same or from another address.
Connect(s, ip) ==
    /\ loop_free
    /\ listening
    /\ pc[s] = "idle"
    /\ \A r \in 1..(s - 1) : pc[r] # "idle"
    /\ s = 1 => ip = ClientIPs[1]
    /\ pc' = [pc EXCEPT ![s] = "pending"]
    /\ client_addr' = [client_addr EXCEPT ![s] = ip]
    /\ UNCHANGED << session_command, session_analysis, written, trace, lines_read,
                    unlogged, events >>
    /\ UNCHANGED << server_vars, analyzer_vars, now, log_files, alert_vars, caller_vars >>

\* handle_client up to the first await: count the connection, register the
\* writer, write the welcome message
Start(s) ==
    /\ loop_free
    /\ pc[s] = "pending"
    /\ stats' = [stats EXCEPT !.connections = @ + 1]
    /\ active_connections' = Append(active_connections, s)
    /\ written' = [written EXCEPT ![s] = Append(@, "welcome")]
    /\ pc' = [pc EXCEPT ![s] = "greet_drain"]
    /\ UNCHANGED << client_addr, session_command, session_analysis, trace, lines_read,
                    unlogged, events >>
    /\ UNCHANGED << writer_closed, listening, shutdown_pc >>
    /\ UNCHANGED << analyzer_vars, now, log_files, alert_vars, caller_vars >>

\* welcome_msg
welcome_msg ==
    <<"W","e","l","c","o","m","e"," ","t","o"," ","I","n","d","u","s","t","r","i","a","l"," ","S","S","H"," ","S","e","r","v","e","r"," ","v","2",".","4",".","7">> \o <<"\n">>
    \o <<"L","a","s","t"," ","l","o","g","i","n",":"," ","M","o","n"," ","J","a","n"," ","1","5"," ","1","0",":","3","0",":","4","5"," ","2","0","2","4"," ","f","r","o","m"," ","1","9","2",".","1","6","8",".","1",".","1","0","0">> \o <<"\n">>
    \o <<"[","r","o","o","t","@","s","e","r","v","e","r"," ","~","]","#"," ">>

\* a variant: the response is written as rendered before the prompt is added
write_bytes_reply_without_prompt(token) ==
    CASE token = "welcome" -> welcome_msg
      [] token = "prompt"  -> <<"[","r","o","o","t","@","s","e","r","v","e","r"," ","~","]","#"," ">>
      [] token = "reply"   -> <<"(response)">>

\* the bytes of each writer.write of handle_client: the welcome message,
\* the prompt of an empty line, and response.encode(), where the response
\* is what generate_response rendered with its prompt at the end
write_bytes(token) ==
    CASE token = "welcome" -> welcome_msg
      [] token = "prompt"  -> <<"[","r","o","o","t","@","s","e","r","v","e","r"," ","~","]","#"," ">>
      [] token = "reply"   -> <<"(response)">> \o <<"\n">> \o <<"[","r","o","o","t","@","s","e","r","v","e","r"," ","~","]","#"," ">>

\* a variant: the writer stays registered
cleanup_keeps_writer(s) ==
    /\ active_connections' = active_connections
    /\ writer_closed' = [writer_closed EXCEPT ![s] = TRUE]
    /\ pc' = [pc EXCEPT ![s] = "wait_closed"]
    /\ session_command' = [session_command EXCEPT ![s] = <<>>]
    /\ session_analysis' = [session_analysis EXCEPT ![s] = NoAnalysis]

\* a variant: the registry is emptied
cleanup_clears_registry(s) ==
    /\ active_connections' = <<>>
    /\ writer_closed' = [writer_closed EXCEPT ![s] = TRUE]
    /\ pc' = [pc EXCEPT ![s] = "wait_closed"]
    /\ session_command' = [session_command EXCEPT ![s] = <<>>]
    /\ session_analysis' = [session_analysis EXCEPT ![s] = NoAnalysis]

\* finally: remove the writer if it is registered, close it, and await
\* writer.wait_closed()
cleanup(s) ==
    /\ active_connections' =
         IF list_has(active_connections, s)
         THEN list_remove(active_connections, s)
         ELSE active_connections
    /\ writer_closed' = [writer_closed EXCEPT ![s] = TRUE]
    /\ pc' = [pc EXCEPT ![s] = "wait_closed"]
    /\ session_command' = [session_command EXCEPT ![s] = <<>>]
    /\ session_analysis' = [session_analysis EXCEPT ![s] = NoAnalysis]

\* writer.drain() raises once the connection is lost or the transport closed
drain_raises(s, lost) == lost \/ writer_closed[s]

\* await writer.drain() after the welcome message; an exception is caught by
\* the outer except and finally runs
GreetDrain(s) ==
    /\ loop_free
    /\ pc[s] = "greet_drain"
    /\ \E lost \in BOOLEAN :
         /\ disturb(B2N(lost))
         /\ IF drain_raises(s, lost)
            THEN cleanup(s)
            ELSE /\ pc' = [pc EXCEPT ![s] = "readline"]
                 /\ UNCHANGED << session_command, session_analysis, active_connections,
                                 writer_closed >>
    /\ UNCHANGED << client_addr, written, trace, lines_read, unlogged >>
    /\ UNCHANGED << stats, listening, shutdown_pc >>
    /\ UNCHANGED << analyzer_vars, now, log_files, alert_vars, caller_vars >>

\* data = await reader.readline() returns b'' or raises: break, then finally
ReadEOF(s) ==
    /\ loop_free
    /\ pc[s] = "readline"
    /\ cleanup(s)
    /\ UNCHANGED << client_addr, written, trace, lines_read, unlogged, events >>
    /\ UNCHANGED << stats, listening, shutdown_pc >>
    /\ UNCHANGED << analyzer_vars, now, log_files, alert_vars, caller_vars >>

\* a variant: the command is logged after the reply is written
body_calls_log_last(analyzed, logged) ==
    << IF analyzed THEN "analyze" ELSE "analyze_failed",
       "render", "write",
       IF logged THEN "log" ELSE "log_failed" >>

\* the calls of the loop body up to the write of the reply, in program order
body_calls(analyzed, logged) ==
    << IF analyzed THEN "analyze" ELSE "analyze_failed",
       IF logged THEN "log" ELSE "log_failed",
       "render", "write" >>

\* the calls of the loop body after the reply is written, in program order
alert_calls(delivered) ==
    << IF delivered THEN "alert" ELSE "alert_failed", "notify" >>

\* a variant: only CRITICAL raises an alert
alert_due_critical_only(a) == a.threat_level = "CRITICAL"

\* analysis["threat_level"] in ["HIGH", "CRITICAL"]
alert_due(a) == a.threat_level \in {"HIGH", "CRITICAL"}

\* data = await reader.readline() returns a line, up to the next
\* await writer.drain(): the empty line gets the prompt; any other line is
\* counted, analyzed, logged and answered (of the rendered response the
\* model keeps that it was written).  An exception that leaves one of
\* the calls is caught by the inner except: break, then finally.
ReadLine(s, data) ==
    /\ loop_free
    /\ pc[s] = "readline"
    /\ ~writer_closed[s]
    /\ lines_read < MaxLines
    /\ lines_read' = lines_read + 1
    /\ LET cmd == strip(decode(data))
       IN  IF cmd = <<>>
           THEN /\ written' = [written EXCEPT ![s] = Append(@, "prompt")]
                /\ pc' = [pc EXCEPT ![s] = "prompt_drain"]
                /\ UNCHANGED << session_command, session_analysis, trace, unlogged, events,
                                stats, active_connections, writer_closed,
                                analysis_cache, now, log_files >>
           ELSE \E raises \in BOOLEAN, t1 \in Clock(now) :
                /\ events + B2N(raises) + (t1 - now) <= MaxEvents
                /\ \E a \in {analyze_command(analysis_cache, ai_model, cmd,
                                             client_addr[s], t1, raises)} :
                   \E fs \in FsStates, t2 \in Clock(t1) :
                   LET cid == stats.commands + 1
                       l == log_command(log_files, cmd, client_addr[s], a.analysis,
                                        t2, fs, cid, s)
                   IN  /\ disturb(B2N(raises) + B2N(fs # "ok") + (t2 - now))
                       /\ stats' = [stats EXCEPT !.commands = @ + 1]
                       /\ analysis_cache' = a.cache
                       /\ log_files' = l.files
                       /\ unlogged' = IF fs = "ok" THEN unlogged ELSE unlogged \cup {cid}
                       /\ now' = t2
                       /\ IF l.raised
                          THEN /\ cleanup(s)
                               /\ trace' = [trace EXCEPT ![s] =
                                    [cid |-> cid, level |-> a.analysis.threat_level,
                                     steps |-> SubSeq(body_calls(~raises, FALSE), 1, 2),
                                     done |-> FALSE]]
                               /\ UNCHANGED written
                          ELSE /\ session_command' = [session_command EXCEPT ![s] = cmd]
                               /\ session_analysis' = [session_analysis EXCEPT ![s] = a.analysis]
                               /\ written' = [written EXCEPT ![s] = Append(@, "reply")]
                               /\ trace' = [trace EXCEPT ![s] =
                                    [cid |-> cid, level |-> a.analysis.threat_level,
                                     steps |-> body_calls(~raises, fs = "ok"),
                                     done |-> FALSE]]
                               /\ pc' = [pc EXCEPT ![s] = "reply_drain"]
                               /\ UNCHANGED << active_connections, writer_closed >>
    /\ UNCHANGED << client_addr, ai_model, listening, shutdown_pc >>
    /\ UNCHANGED << alert_vars, caller_vars >>

\* await writer.drain() after the prompt of an empty line
PromptDrain(s) ==
    /\ loop_free
    /\ pc[s] = "prompt_drain"
    /\ \E lost \in BOOLEAN :
         /\ disturb(B2N(lost))
         /\ IF drain_raises(s, lost)
            THEN cleanup(s)
            ELSE /\ pc' = [pc EXCEPT ![s] = "readline"]
                 /\ UNCHANGED << session_command, session_analysis, active_connections,
                                 writer_closed >>
    /\ UNCHANGED << client_addr, written, trace, lines_read, unlogged >>
    /\ UNCHANGED << stats, listening, shutdown_pc >>
    /\ UNCHANGED << analyzer_vars, now, log_files, alert_vars, caller_vars >>

\* await writer.drain() after the reply.  For HIGH and CRITICAL the task goes
\* on, without an await that suspends it, into send_alert; otherwise the next
\* readline is awaited and the locals of the iteration are dead
ReplyDrain(s) ==
    /\ loop_free
    /\ pc[s] = "reply_drain"
    /\ \E lost \in BOOLEAN :
         /\ disturb(B2N(lost))
         /\ IF drain_raises(s, lost)
            THEN /\ cleanup(s)
                 /\ UNCHANGED trace
            ELSE /\ IF alert_due(session_analysis[s])
                    THEN /\ pc' = [pc EXCEPT ![s] = "alerting"]
                         /\ UNCHANGED << session_command, session_analysis, trace >>
                    ELSE /\ pc' = [pc EXCEPT ![s] = "readline"]
                         /\ session_command' = [session_command EXCEPT ![s] = <<>>]
                         /\ session_analysis' = [session_analysis EXCEPT ![s] = NoAnalysis]
                         /\ trace' = [trace EXCEPT ![s].done = TRUE]
                 /\ UNCHANGED << active_connections, writer_closed >>
    /\ UNCHANGED << client_addr, written, lines_read, unlogged >>
    /\ UNCHANGED << stats, listening, shutdown_pc >>
    /\ UNCHANGED << analyzer_vars, now, log_files, alert_vars, caller_vars >>

\* a variant: the threat is counted when the alert was delivered
SendAlert_counts_delivered(s) ==
    /\ pc[s] = "alerting"
    /\ \E net \in NetStates :
         LET sent == send_alert(bot_token, chat_id, net)
         IN  /\ outbound' = outbound + sent.posts
             /\ stats' = [stats EXCEPT !.threats = @ + B2N(sent.result)]
             /\ trace' = [trace EXCEPT ![s].steps = @ \o alert_calls(sent.result),
                                       ![s].done = TRUE]
    /\ pc' = [pc EXCEPT ![s] = "readline"]
    /\ session_command' = [session_command EXCEPT ![s] = <<>>]
    /\ session_analysis' = [session_analysis EXCEPT ![s] = NoAnalysis]
    /\ UNCHANGED << client_addr, written, lines_read, unlogged, events >>
    /\ UNCHANGED << active_connections, writer_closed, listening, shutdown_pc >>
    /\ UNCHANGED << analyzer_vars, now, log_files, bot_token, chat_id, caller_vars >>

\* send_alert, stats["threats"] += 1 and _notify_backend return (their
\* exceptions are all caught): the requests they post have been answered or
\* have timed out; then the next readline is awaited
SendAlert(s) ==
    /\ pc[s] = "alerting"
    /\ \E net \in NetStates :
         LET sent == send_alert(bot_token, chat_id, net)
         IN  /\ outbound' = outbound + sent.posts
             /\ stats' = [stats EXCEPT !.threats = @ + 1]
             /\ trace' = [trace EXCEPT ![s].steps = @ \o alert_calls(sent.result),
                                       ![s].done = TRUE]
    /\ pc' = [pc EXCEPT ![s] = "readline"]
    /\ session_command' = [session_command EXCEPT ![s] = <<>>]
    /\ session_analysis' = [session_analysis EXCEPT ![s] = NoAnalysis]
    /\ UNCHANGED << client_addr, written, lines_read, unlogged, events >>
    /\ UNCHANGED << active_connections, writer_closed, listening, shutdown_pc >>
    /\ UNCHANGED << analyzer_vars, now, log_files, bot_token, chat_id, caller_vars >>

\* await writer.wait_closed() returns or raises; the task ends
WaitClosed(s) ==
    /\ loop_free
    /\ pc[s] = "wait_closed"
    /\ pc' = [pc EXCEPT ![s] = "done"]
    /\ UNCHANGED << client_addr, session_command, session_analysis, written, trace,
                    lines_read, unlogged, events >>
    /\ UNCHANGED << server_vars, analyzer_vars, now, log_files, alert_vars, caller_vars >>

\* HoneypotServer._signal_handler: SIGINT or SIGTERM
SignalHandler ==
    /\ listening
    /\ shutdown_pc = "none"
    /\ disturb(1)
    /\ listening' = FALSE
    /\ shutdown_pc' = "scheduled"
    /\ UNCHANGED << session_vars, stats, active_connections, writer_closed >>
    /\ UNCHANGED << analyzer_vars, now, log_files, alert_vars, caller_vars >>

\* HoneypotServer._shutdown
Shutdown ==
    /\ loop_free
    /\ shutdown_pc = "scheduled"
    /\ writer_closed' = [s \in Sessions |->
                           writer_closed[s] \/ list_has(active_connections, s)]
    /\ active_connections' = <<>>
    /\ shutdown_pc' = "done"
    /\ UNCHANGED << session_vars, events, stats, listening >>
    /\ UNCHANGED << analyzer_vars, now, log_files, alert_vars, caller_vars >>

Next ==
    \/ \E s \in Sessions, i \in 1..Len(ClientIPs) : Connect(s, ClientIPs[i])
    \/ \E s \in Sessions : Start(s)
    \/ \E s \in Sessions : GreetDrain(s)
    \/ \E s \in Sessions : ReadEOF(s)
    \/ \E s \in Sessions, data \in ClientLines : ReadLine(s, data)
    \/ \E s \in Sessions : PromptDrain(s)
    \/ \E s \in Sessions : ReplyDrain(s)
    \/ \E s \in Sessions : SendAlert(s)
    \/ \E s \in Sessions : WaitClosed(s)
    \/ SignalHandler
    \/ Shutdown

Spec == Init /\ [][Next]_vars
\* -------------------------------------------------------------------------
\* AIAnalyzer.batch_analyze: one analyzer, one address, command after command
\* -------------------------------------------------------------------------
MaxCalls == 1002

\* the n-th new command of the batch
batch_command(n) == <<"e","c","h","o"," ">> \o str(n)

InitCache ==
    /\ InitServer
    /\ ai_model = "None"
    /\ bot_token = FALSE
    /\ chat_id = FALSE
    /\ InitCallers

\* one iteration of the loop of batch_analyze
batch_step(cmd) ==
    \E a \in {analyze_command(analysis_cache, ai_model, cmd, ClientIPs[1], now, FALSE)} :
        /\ analysis_cache' = a.cache
        /\ returned' = [key |-> make_cache_key(ClientIPs[1], cmd), hit |-> a.hit,
                        analysis |-> a.analysis, model |-> ai_model]

\* the next command is one not analyzed before
BatchNew ==
    /\ calls < MaxCalls
    /\ batch_step(batch_command(calls))
    /\ calls' = calls + 1
    /\ UNCHANGED << session_vars, events, server_vars, ai_model, now, log_files, alert_vars, api, rendered, threat_intel, alert_text, simple, json_log, ws >>

\* the next command is one analyzed before whose entry is still in the cache:
\* the one cached longest ago or the one cached last
BatchRepeat(i) ==
    /\ analysis_cache # <<>>
    /\ i \in {1, Len(analysis_cache)}
    /\ batch_step(analysis_cache[i].value.command)
    /\ UNCHANGED << session_vars, events, server_vars, ai_model, now, log_files, alert_vars,
                    api, calls, rendered, threat_intel, alert_text, simple, json_log, ws >>

NextCache ==
    \/ BatchNew
    \/ \E i \in 1..cache_size : BatchRepeat(i)

SpecCache == InitCache /\ [][NextCache]_vars

\* -------------------------------------------------------------------------
\* AIAnalyzer.analyze_command and AIAnalyzer.force_retrain on one analyzer
\* -------------------------------------------------------------------------
MaxAnalyses == 3

\* how AIManager.retrain_model / train_model can end
\*   no_data     commands.json missing or with fewer than 10 commands, or an
\*               exception before the estimator is assigned: model unchanged
\*   fit_raises  the estimator is assigned, then fit (or a later step) raises
\*               before it is fitted: scoring with it raises
\*   trained     the fitted estimator is assigned; it has decision_function
TrainOutcomes == {"no_data", "fit_raises", "trained"}

\* AIManager.train_model: the value of self.model afterwards
train_model(model, outcome) ==
    CASE outcome = "no_data"    -> model
      [] outcome = "fit_raises" -> "Raises"
      [] outcome = "trained"    -> "Decision"

InitRetrain ==
    /\ InitServer
    /\ ai_model \in ModelHandles
    /\ bot_token = FALSE
    /\ chat_id = FALSE
    /\ InitCallers

\* a caller awaits analyze_command(cmd, ip); something in its try block may
\* raise
Analyze(cmd, ip) ==
    /\ calls < MaxAnalyses
    /\ \E raises \in BOOLEAN :
       \E a \in {analyze_command(analysis_cache, ai_model, cmd, ip, now, raises)} :
        /\ analysis_cache' = a.cache
        /\ returned' = [key |-> make_cache_key(ip, cmd), hit |-> a.hit,
                        analysis |-> a.analysis, model |-> ai_model,
                        ip |-> ip, command |-> cmd]
    /\ calls' = calls + 1
    /\ UNCHANGED << session_vars, events, server_vars, ai_model, now, log_files, alert_vars, api, rendered, threat_intel, alert_text, simple, json_log, ws >>

\* AIAnalyzer.force_retrain: the model is replaced, the cache is left as it is
ForceRetrain(outcome) ==
    /\ ai_model' = train_model(ai_model, outcome)
    /\ UNCHANGED << session_vars, events, server_vars, analysis_cache, now, log_files,
                    alert_vars, caller_vars >>

NextRetrain ==
    \/ \E cmd \in SessionCommands, i \in 1..Len(ClientIPs) : Analyze(cmd, ClientIPs[i])
    \/ \E outcome \in TrainOutcomes : ForceRetrain(outcome)

SpecRetrain == InitRetrain /\ [][NextRetrain]_vars

\* -------------------------------------------------------------------------
\* AIAnalyzer.analyze_command for peers of a server bound to an IPv6 address
\* (HoneypotServer(host="::")), whose client_addr[0] holds colons
\* -------------------------------------------------------------------------
PeerIPs == { <<"2","0","0","1",":","d","b","8",":",":","1">>, <<"2","0","0","1",":","d","b","8",":",":","1",":","5">>, <<"1","0",".","0",".","0",".","5">> }

PeerCommands == { <<"i","d">>, <<"5",":","i","d">>, <<"s","u","d","o"," ","i","d"," ","&","&"," ","w","h","o","a","m","i">> }

InitPeers ==
    /\ InitServer
    /\ ai_model = "None"
    /\ bot_token = FALSE
    /\ chat_id = FALSE
    /\ InitCallers

NextPeers == \E cmd \in PeerCommands, ip \in PeerIPs : Analyze(cmd, ip)

SpecPeers == InitPeers /\ [][NextPeers]_vars

\* -------------------------------------------------------------------------
\* The backend's /analyze route: a client composes a command and posts it
\* -------------------------------------------------------------------------
MaxFragments == 3

\* what the commands posted are composed of
Fragments == { <<"s","u","d","o"," ">>, <<"p","a","s","s","w","d"," ">>, <<"c","a","t"," ","/","e","t","c","/","s","h","a","d","o","w"," ">>, <<"b","a","s","h"," ","-","c"," ">>,
               <<"m","k","f","s"," ">>, <<"w","h","o","a","m","i"," ">>, <<";"," ">>, <<"n","c"," ","-","l"," ">>, <<";">>, <<"i","d">>,
               <<"c","a","t"," ","/","e","t","c","/","p","a","s","s","w","d">>, <<"r","m"," ","-","r","f"," ","/","t","m","p","/","*">> }

\* the readings of the backend's clock, in the order they are taken
Instants == << [year |-> 2024, month |-> 1,  day |-> 15, hour |-> 9],
               [year |-> 2024, month |-> 1,  day |-> 15, hour |-> 23],
               [year |-> 2024, month |-> 11, day |-> 5,  hour |-> 0],
               [year |-> 2025, month |-> 1,  day |-> 15, hour |-> 9] >>

\* the request just answered, as the next request's api.previous
answered ==
    IF api.assessed
    THEN [command |-> api.command, ip |-> api.ip, day |-> api.day, result |-> api.result]
    ELSE NoPrevious

\* the addresses they are posted with
RequestIPs == { <<"1","0",".","0",".","0",".","5">>, <<"2","0","3",".","0",".","1","1","3",".","2","5">>, <<"5","2",".","1","0",".","3",".","7">> }

\* the sign of the error of the float arithmetic on the score
FloatErrors == {-1, 0, 1}

InitThreat ==
    /\ InitServer
    /\ ai_model = "None"
    /\ bot_token = FALSE
    /\ chat_id = FALSE
    /\ calls = 0
    /\ returned = NoCall
    /\ rendered = NoRender
    /\ threat_intel = NoIntel
    /\ alert_text = NoAlertText
    /\ simple = NoSimple
    /\ json_log = NoJsonLog
    /\ ws = NoWs
    /\ \E ip \in RequestIPs, err \in FloatErrors :
         api = [NoRequest EXCEPT !.ip = ip, !.err = err, !.day = Instants[1]]

\* the client extends the command of its next request
Compose(f) ==
    /\ api.parts < MaxFragments
    /\ api' = [api EXCEPT !.command = @ \o f, !.parts = @ + 1,
                          !.assessed = FALSE, !.result = NoRequest.result,
                          !.previous = answered]
    /\ UNCHANGED << session_vars, events, server_vars, analyzer_vars, now, log_files,
                    alert_vars, calls, returned, rendered, threat_intel, alert_text, simple, json_log, ws >>

\* analyze_command_professionally: result = analyze_command_threat(command, ip)
Assess ==
    /\ ~api.assessed
    /\ api' = [api EXCEPT !.assessed = TRUE,
                          !.result = analyze_command_threat(api.command, api.ip,
                                                            api.day, api.err)]
    /\ UNCHANGED << session_vars, events, server_vars, analyzer_vars, now, log_files,
                    alert_vars, calls, returned, rendered, threat_intel, alert_text, simple, json_log, ws >>

NextThreat ==
    \/ \E f \in Fragments : Compose(f)
    \/ Assess

SpecThreat == InitThreat /\ [][NextThreat]_vars

\* -------------------------------------------------------------------------
\* The backend's /analyze route: whole requests, one after another, while
\* the clock of the backend advances
\* -------------------------------------------------------------------------
SignatureCommands == { <<"e","c","h","o">>, <<"e","c","h","o",":","2","0","0","1">>, <<"i","d">> }

SignatureIPs == { <<"2","0","0","1",":","d","b","8",":",":","1">>, <<"d","b","8",":",":","1">>, <<"1","0",".","0",".","0",".","5">> }

InitSignature ==
    /\ InitServer
    /\ ai_model = "None"
    /\ bot_token = FALSE
    /\ chat_id = FALSE
    /\ calls = 0
    /\ returned = NoCall
    /\ rendered = NoRender
    /\ threat_intel = NoIntel
    /\ alert_text = NoAlertText
    /\ simple = NoSimple
    /\ json_log = NoJsonLog
    /\ ws = NoWs
    /\ \E err \in FloatErrors : api = [NoRequest EXCEPT !.err = err, !.day = Instants[1]]

\* a request with command cmd and address ip is answered when the clock
\* reads Instants[k]
Post(cmd, ip, k) ==
    /\ \E j \in 1..k : Instants[j] = api.day
    /\ api' = [api EXCEPT !.command = cmd, !.ip = ip, !.day = Instants[k],
                          !.assessed = TRUE,
                          !.result = analyze_command_threat(cmd, ip, Instants[k], api.err),
                          !.previous = answered]
    /\ UNCHANGED << session_vars, events, server_vars, analyzer_vars, now, log_files,
                    alert_vars, calls, returned, rendered, threat_intel, alert_text, simple, json_log, ws >>

NextSignature ==
    \E cmd \in SignatureCommands, ip \in SignatureIPs, k \in 1..Len(Instants) :
        Post(cmd, ip, k)

SpecSignature == InitSignature /\ [][NextSignature]_vars

\* -------------------------------------------------------------------------
\* ConnectionHandler.generate_response called again and again, with any
\* tier, while the clock advances.  As in handle_client, the commands have at
\* least one word.
\* -------------------------------------------------------------------------
RenderCommands == { <<"l","s"," ","-","l","a">>, <<"d","a","t","e">>, <<"n","m","a","p">> }

InitResponse ==
    /\ InitServer
    /\ ai_model = "None"
    /\ bot_token = FALSE
    /\ chat_id = FALSE
    /\ InitCallers

\* response = await self.handler.generate_response(command, analysis); of
\* the calls made, rendered keeps the last two
Render(cmd, level, r) ==
    /\ \E t \in Clock(now) :
         LET call == [ command  |-> cmd,
                       level    |-> level,
                       at       |-> t,
                       response |-> generate_response(cmd, [threat_level |-> level], t, r) ]
             all == Append(rendered, call)
         IN  /\ now' = t
             /\ rendered' = IF Len(all) > 2 THEN Tail(all) ELSE all
    /\ UNCHANGED << session_vars, events, server_vars, analyzer_vars, log_files,
                    alert_vars, api, calls, returned, threat_intel, alert_text, simple, json_log, ws >>

NextResponse ==
    \E cmd \in RenderCommands, level \in {"LOW", "MEDIUM", "HIGH", "CRITICAL"},
       r \in RandomDraws : Render(cmd, level, r)

SpecResponse == InitResponse /\ [][NextResponse]_vars

\* -------------------------------------------------------------------------
\* The backend's /analyze route with its attacker profiles.  The route is a
\* plain function, which the framework runs on a thread of its pool: two
\* requests can be served at once.  A thread can be suspended where it reads
\* THREATS_FILE and where it writes it.
\* -------------------------------------------------------------------------
MaxRequests == 3

\* load_threat_intelligence: the profiles of the file, one for each address
load_threat_intelligence(file) == file

\* update_threat_intelligence, from the loaded profiles to the profiles it
\* writes; t is datetime.now(), scores are in units of 0.0001
update_threat_intelligence(intelligence, ip, analysis, t) ==
    IF \E p \in intelligence : p.ip = ip
    THEN { IF p.ip = ip
           THEN [p EXCEPT !.attack_frequency = @ + 1,
                          !.last_seen = t,
                          !.reputation_score = Min(10000, @ + 1000)]
           ELSE p : p \in intelligence }
    ELSE intelligence \cup
           { [ ip               |-> ip,
               source_country   |-> CASE get_geographic_info_type(ip) = "Private"
                                              -> "Internal Network"
                                         [] get_geographic_info_type(ip) = "Local"
                                              -> "Localhost"
                                         [] OTHER -> "Unknown",
               first_seen       |-> t,
               last_seen        |-> t,
               attack_frequency |-> 1,
               threat_signature |-> analysis.signature_data,
               reputation_score |-> analysis.anomaly_score.c ] }

InitIntel ==
    /\ InitServer
    /\ ai_model = "None"
    /\ bot_token = FALSE
    /\ chat_id = FALSE
    /\ InitCallers

\* analyze_command_professionally up to the read of THREATS_FILE in
\* update_threat_intelligence: the assessment is made, the profiles are loaded
Receive(w, ip, cmd) ==
    /\ threat_intel.workers[w].pc = "idle"
    /\ Cardinality(threat_intel.made) < MaxRequests
    /\ \E t \in Clock(now) :
         /\ now' = t
         /\ threat_intel' =
              [threat_intel EXCEPT
                 !.workers[w] = [ pc       |-> "loaded",
                                  ip       |-> ip,
                                  analysis |-> analyze_command_threat(cmd, ip, Instants[1], 0),
                                  loaded   |-> load_threat_intelligence(threat_intel.file),
                                  at       |-> t ],
                 !.made = @ \cup {[n |-> Cardinality(@) + 1, ip |-> ip]},
                 !.overlapped = @ \/ \E o \in Workers : threat_intel.workers[o].pc # "idle"]
    /\ UNCHANGED << session_vars, events, server_vars, analyzer_vars, log_files,
                    alert_vars, api, calls, returned, rendered, alert_text, simple, json_log, ws >>

\* update_threat_intelligence from there on: the profile is created or
\* updated in the loaded profiles, and the file is written
Store(w) ==
    /\ threat_intel.workers[w].pc = "loaded"
    /\ threat_intel' =
         [threat_intel EXCEPT
            !.file = update_threat_intelligence(threat_intel.workers[w].loaded,
                                                threat_intel.workers[w].ip,
                                                threat_intel.workers[w].analysis,
                                                threat_intel.workers[w].at),
            !.workers[w] = NoWorker]
    /\ UNCHANGED << session_vars, events, server_vars, analyzer_vars, now, log_files,
                    alert_vars, api, calls, returned, rendered, alert_text, simple, json_log, ws >>

NextIntel ==
    \/ \E w \in Workers, ip \in RequestIPs, cmd \in SignatureCommands : Receive(w, ip, cmd)
    \/ \E w \in Workers : Store(w)

SpecIntel == InitIntel /\ [][NextIntel]_vars

\* -------------------------------------------------------------------------
\* TelegramManager.send_alert composing its message, for commands made of
\* the characters the message format gives a meaning to, short and long
\* -------------------------------------------------------------------------
MaxPieces == 3

\* n times the letter a
Filler(n) == [i \in 1..n |-> "a"]

\* what the commands are made of
CommandPieces == { <<"<">>, <<">">>, <<"&">>, <<"i","d">>, Filler(498) }

InitAlert ==
    /\ InitServer
    /\ ai_model = "None"
    /\ bot_token = TRUE
    /\ chat_id = TRUE
    /\ InitCallers

\* the attacker types one more piece of the command
Type(piece) ==
    /\ ~alert_text.sent
    /\ alert_text.parts < MaxPieces
    /\ alert_text' = [alert_text EXCEPT !.command = @ \o piece, !.parts = @ + 1]
    /\ UNCHANGED << session_vars, events, server_vars, analyzer_vars, now, log_files,
                    alert_vars, api, calls, returned, rendered, threat_intel, simple, json_log, ws >>

\* send_alert(command, ip, "HIGH", 0.85) up to the payload of _send_message
ComposeAlert ==
    /\ ~alert_text.sent
    /\ alert_text.command # <<>>
    /\ LET escaped == _sanitize_command(alert_text.command)
           message == alert_message(escaped, ClientIPs[2], <<"H","I","G","H">>, <<"0",".","8","5","0">>,
                                    <<"2","0","2","4","-","0","1","-","1","5"," ","0","9",":","0","0",":","0","0"," ","U","T","C">>)
       IN  alert_text' = [alert_text EXCEPT !.sent = TRUE, !.safe = escaped,
                                            !.text = message_text(message)]
    /\ UNCHANGED << session_vars, events, server_vars, analyzer_vars, now, log_files,
                    alert_vars, api, calls, returned, rendered, threat_intel, simple, json_log, ws >>

NextAlert ==
    \/ \E piece \in CommandPieces : Type(piece)
    \/ ComposeAlert

SpecAlert == InitAlert /\ [][NextAlert]_vars

\* -------------------------------------------------------------------------
\* src/honeypot/simple_server.py  SimpleHoneypot
\* -------------------------------------------------------------------------
suspicious_keywords == <<
    <<"r","m"," ","-","r","f">>, <<"c","a","t"," ","/","e","t","c","/","p","a","s","s","w","d">>, <<"c","a","t"," ","/","e","t","c","/","s","h","a","d","o","w">>, <<"w","g","e","t">>,
    <<"c","u","r","l">>, <<"n","c"," ">>, <<"s","y","s","t","e","m","c","t","l">>, <<"s","u"," ","-">>, <<"s","u","d","o">>, <<"c","h","m","o","d"," ","+","x">>,
    <<"p","y","t","h","o","n"," ","-","c">>, <<"b","a","s","h"," ","-","c">>, <<"s","h"," ","-","c">>, <<"/","b","i","n","/","b","a","s","h">>, <<"f","i","n","d"," ","/">>,
    <<"k","i","l","l"," ","-","9">>, <<"i","p","t","a","b","l","e","s">>, <<"p","a","s","s","w","d">>, <<"i","d">>, <<"u","n","a","m","e"," ","-","a">> >>

\* SimpleHoneypot.analyze_threat_level; the score in hundredths
analyze_threat_level(command) ==
    LET command_lower == lower(command)
        threat_score == Cardinality({k \in 1..Len(suspicious_keywords) :
                                        contains(suspicious_keywords[k], command_lower)})
    IN  IF threat_score >= 3
        THEN [threat_level |-> "CRITICAL", score |-> Min(100, threat_score * 25)]
        ELSE IF threat_score >= 2
        THEN [threat_level |-> "HIGH", score |-> Min(100, threat_score * 20)]
        ELSE IF threat_score >= 1
        THEN [threat_level |-> "MEDIUM", score |-> Min(50, threat_score * 15)]
        ELSE [threat_level |-> "LOW", score |-> Min(20, Len(command) * 1)]

\* SimpleHoneypot.log_session: the record appended to data/sessions.json,
\* of which the last 1000 are kept (the session_id and the timestamp, both
\* taken from the clock, are left out)
log_session(sessions, ip, command, threat_level, score) ==
    last_entries(Append(sessions, [ip |-> ip, command |-> command,
                                   threat_level |-> threat_level,
                                   anomaly_score |-> score]), 1000)

\* SimpleHoneypot.generate_response, for the branches these commands take
simple_generate_response(command) ==
    LET command_lower == strip(lower(command))
    IN  CASE command_lower = <<"l","s">> -> <<"f","i","l","e","1",".","t","x","t"," "," ","f","i","l","e","2",".","t","x","t"," "," ","f","o","l","d","e","r","1","/">>
          [] command_lower = <<"p","w","d">> -> <<"/","h","o","m","e","/","u","s","e","r">>
          [] command_lower = <<"w","h","o","a","m","i">> -> <<"u","s","e","r">>
          [] OTHER -> <<"-","b","a","s","h",":"," ">> \o first_word(command) \o <<":"," ","c","o","m","m","a","n","d"," ","n","o","t"," ","f","o","u","n","d">>

\* the greeting of SimpleHoneypot.handle_client
simple_welcome_msg ==
    <<"W","e","l","c","o","m","e"," ","t","o"," ","I","n","d","u","s","t","r","i","a","l"," ","S","S","H"," ","S","e","r","v","e","r"," ","v","2",".","4",".","7">> \o <<"\r", "\n">>
    \o <<"L","a","s","t"," ","l","o","g","i","n",":"," ","M","o","n"," ","J","a","n"," ","1","5"," ","1","0",":","3","0",":","4","5"," ","2","0","2","4">> \o <<"\r", "\n">>
    \o <<"[","u","s","e","r","@","s","e","r","v","e","r"," ","~","]","#"," ">>

MaxConnections == 2
MaxChunks == 2

\* what recv(1024) returns: b"" when the peer has closed, or what it sent
SimpleData == { <<>>,
                <<"\n">>,
                <<"i","d">> \o <<"\n">>,
                <<"p","w","d">> \o <<"\n">>,
                <<"e","c","h","o"," ","h","e","l","l","o"," ","w","o","r","l","d","!","!">> \o <<"\n">>,
                <<"s","u","d","o"," ","i","d">> \o <<"\n">>,
                <<"s","u","d","o"," ","w","g","e","t"," ","i","d">> \o <<"\n">> }

InitSimple ==
    /\ InitServer
    /\ ai_model = "None"
    /\ bot_token = TRUE
    /\ chat_id = TRUE
    /\ InitCallers

simple_unchanged ==
    UNCHANGED << session_vars, events, server_vars, analyzer_vars, now, log_files,
                 alert_vars, api, calls, returned, rendered, threat_intel, alert_text, json_log, ws >>

\* the event loop runs one callback at a time: a task gets its first step
\* when run_server, which never awaits, has returned and no other task runs
simple_loop_free ==
    /\ simple.run_server = "returned"
    /\ \A c \in 1..Len(simple.tasks) : simple.tasks[c].state # "running"

\* a client connects: the connection waits in the listen queue
SimpleConnect(ip) ==
    /\ simple.run_server = "accept"
    /\ Len(simple.backlog) + Len(simple.tasks) < MaxConnections
    /\ simple' = [simple EXCEPT !.backlog = Append(@, ip)]
    /\ simple_unchanged

\* run_server: server.accept() returns, asyncio.create_task(handle_client),
\* and back to server.accept() without an await
SimpleAccept ==
    /\ simple.run_server = "accept"
    /\ simple.backlog # <<>>
    /\ simple' = [simple EXCEPT
                    !.backlog = Tail(@),
                    !.tasks = Append(@, [ip |-> Head(simple.backlog), state |-> "pending",
                                         sent |-> <<>>, lines |-> 0,
                                         last |-> <<>>, analyses |-> 0])]
    /\ simple_unchanged

\* KeyboardInterrupt raised in server.accept(): run_server logs, closes the
\* listening socket and returns
SimpleInterrupt ==
    /\ simple.run_server = "accept"
    /\ simple' = [simple EXCEPT !.run_server = "returned", !.backlog = <<>>]
    /\ simple_unchanged

\* the first step of the oldest task not yet started: handle_client up to
\* its first client_socket.recv
SimpleStart(c) ==
    /\ simple_loop_free
    /\ c \in 1..Len(simple.tasks)
    /\ simple.tasks[c].state = "pending"
    /\ \A o \in 1..(c - 1) : simple.tasks[o].state # "pending"
    /\ simple' = [simple EXCEPT !.tasks[c].state = "running",
                                !.tasks[c].sent = <<simple_welcome_msg>>]
    /\ simple_unchanged

\* handle_client: client_socket.recv(1024) returns data, up to the next recv
\* or to the close of the socket
SimpleRecv(c, data) ==
    /\ c \in 1..Len(simple.tasks)
    /\ simple.tasks[c].state = "running"
    /\ simple.received < MaxChunks
    /\ LET command == strip(decode(data))
       IN  IF data = <<>>
           THEN simple' = [simple EXCEPT !.tasks[c].state = "closed",
                                         !.received = @ + 1]
           ELSE IF command = <<>>
           THEN simple' = [simple EXCEPT !.tasks[c].lines = @ + 1,
                                         !.tasks[c].last = data,
                                         !.received = @ + 1]
           ELSE LET a == analyze_threat_level(command)
                    response == simple_generate_response(command)
                IN  simple' = [simple EXCEPT
                        !.received = @ + 1,
                        !.sessions = log_session(@, simple.tasks[c].ip, command,
                                                 a.threat_level, a.score),
                        !.tasks[c].lines = @ + 1,
                        !.tasks[c].last = data,
                        !.tasks[c].analyses = @ + 1,
                        !.tasks[c].sent = Append(@, response \o <<"\r", "\n">>
                                                    \o <<"[","u","s","e","r","@","s","e","r","v","e","r"," ","~","]","#"," ">>)]
    /\ simple_unchanged

NextSimple ==
    \/ \E ip \in Range(ClientIPs) : SimpleConnect(ip)
    \/ SimpleAccept
    \/ SimpleInterrupt
    \/ \E c \in 1..MaxConnections : SimpleStart(c)
    \/ \E c \in 1..MaxConnections, data \in SimpleData : SimpleRecv(c, data)

SpecSimple == InitSimple /\ [][NextSimple]_vars

\* the event loop runs a callback that is ready when it gets control, and
\* run_server goes on when accept() has a connection to return
SpecSimpleFair ==
    /\ SpecSimple
    /\ WF_vars(SimpleAccept)
    /\ WF_vars(\E c \in 1..MaxConnections : SimpleStart(c))

\* -------------------------------------------------------------------------
\* ConnectionHandler._append_to_json called again and again on one file that
\* holds few entries, or as many as it may hold
\* -------------------------------------------------------------------------
MaxAppends == 3

\* the entries a file holds when it was filled by n earlier appends
EntriesHeld(n) == [i \in 1..n |-> [id |-> i, command |-> <<"i","d">>]]

InitJsonLog ==
    /\ InitServer
    /\ ai_model = "None"
    /\ bot_token = TRUE
    /\ chat_id = TRUE
    /\ api = NoRequest
    /\ calls = 0
    /\ returned = NoCall
    /\ rendered = NoRender
    /\ threat_intel = NoIntel
    /\ alert_text = NoAlertText
    /\ simple = NoSimple
    /\ ws = NoWs
    /\ \E n \in {0, 1, max_log_entries - 2, max_log_entries - 1, max_log_entries} :
         json_log = [file |-> [ok |-> TRUE, entries |-> EntriesHeld(n)], held |-> n,
                     appended |-> <<>>, before |-> EntriesHeld(n)]

\* await self._append_to_json(file_path, data)
AppendToJson(fs) ==
    /\ Len(json_log.appended) < MaxAppends
    /\ LET data == [id |-> json_log.held + Len(json_log.appended) + 1, command |-> <<"i","d">>]
       IN  json_log' = [json_log EXCEPT
                          !.file = _append_to_json(json_log.file, data, fs),
                          !.before = json_log.file.entries,
                          !.appended = Append(@, [data |-> data,
                                                  written |-> json_log.file.ok /\ fs = "ok"])]
    /\ UNCHANGED << session_vars, events, server_vars, analyzer_vars, now, log_files,
                    alert_vars, api, calls, returned, rendered, threat_intel, alert_text,
                    simple, ws >>

NextJsonLog == \E fs \in FsStates : AppendToJson(fs)

SpecJsonLog == InitJsonLog /\ [][NextJsonLog]_vars

\* -------------------------------------------------------------------------
\* src/backend/app.py  ConnectionManager
\* -------------------------------------------------------------------------
MaxSockets == 3
MaxBroadcasts == 2

\* ConnectionManager.disconnect: the list it leaves
disconnect(connections, websocket) ==
    IF list_has(connections, websocket) THEN list_remove(connections, websocket)
    ELSE connections

\* a variant: the loop runs over a copy of the list made when it starts
for_next_over_copy(m) ==
    IF m.iter <= Len(m.started)
    THEN [m EXCEPT !.sending = m.started[m.iter], !.iter = @ + 1]
    ELSE [m EXCEPT !.sending = 0, !.iter = 0]

\* for connection in self.active_connections: the list iterator reads the
\* element at its index in the list as it is now, or ends the loop; then
\* connection.send_json(message) is awaited
for_next(m) ==
    IF m.iter <= Len(m.active_connections)
    THEN [m EXCEPT !.sending = m.active_connections[m.iter], !.iter = @ + 1]
    ELSE [m EXCEPT !.sending = 0, !.iter = 0]

InitBroadcast ==
    /\ InitServer
    /\ ai_model = "None"
    /\ bot_token = TRUE
    /\ chat_id = TRUE
    /\ InitCallers

ws_unchanged ==
    UNCHANGED << session_vars, events, server_vars, analyzer_vars, now, log_files,
                 alert_vars, api, calls, returned, rendered, threat_intel, alert_text,
                 simple, json_log >>

\* ConnectionManager.connect for a new websocket
WsConnect ==
    /\ ws.connected < MaxSockets
    /\ LET c == ws.connected + 1
       IN  ws' = [ws EXCEPT !.connected = c,
                            !.active_connections = Append(@, c),
                            !.working = @ \cup {c}]
    /\ ws_unchanged

\* the peer of a websocket goes away: sends to it raise from now on
WsBreak(c) ==
    /\ c \in ws.working
    /\ ws' = [ws EXCEPT !.working = @ \ {c}]
    /\ ws_unchanged

\* websocket_endpoint: receive_text raises, manager.disconnect(websocket)
WsDisconnect(c) ==
    /\ c \in 1..ws.connected
    /\ c \notin ws.working
    /\ list_has(ws.active_connections, c)
    /\ ws' = [ws EXCEPT !.active_connections = disconnect(@, c)]
    /\ ws_unchanged

\* manager.broadcast(message) is called: up to the first send_json
BeginBroadcast ==
    /\ ws.iter = 0
    /\ ws.broadcasts < MaxBroadcasts
    /\ ws' = for_next([ws EXCEPT !.iter = 1, !.started = ws.active_connections,
                                 !.attempted = {}, !.failed = {},
                                 !.broadcasts = @ + 1])
    /\ ws_unchanged

\* await connection.send_json(message) returns or raises; on an exception
\* self.disconnect(connection); then the loop goes on to the next send_json
SendJson ==
    /\ ws.sending # 0
    /\ LET connection == ws.sending
           raised == connection \notin ws.working
       IN  ws' = for_next([ws EXCEPT
                     !.attempted = @ \cup {connection},
                     !.failed = IF raised THEN @ \cup {connection} ELSE @,
                     !.active_connections =
                         IF raised THEN disconnect(@, connection) ELSE @])
    /\ ws_unchanged

NextBroadcast ==
    \/ WsConnect
    \/ \E c \in 1..MaxSockets : WsBreak(c)
    \/ \E c \in 1..MaxSockets : WsDisconnect(c)
    \/ BeginBroadcast
    \/ SendJson

SpecBroadcast == InitBroadcast /\ [][NextBroadcast]_vars

\* -------------------------------------------------------------------------
\* Properties
\* -------------------------------------------------------------------------
Occurrences(steps, x) == Cardinality({i \in 1..Len(steps) : steps[i] = x})

\* the number of send_alert calls made for the last command of session s
AlertCalls(s) ==
    Occurrences(trace[s].steps, "alert") + Occurrences(trace[s].steps, "alert_failed")

Open(s) == pc[s] \in {"greet_drain", "readline", "prompt_drain", "reply_drain", "alerting"}

\* C1: for a command line whose processing has completed, send_alert was
\* called exactly once if the threat level is HIGH or CRITICAL and not at all
\* if it is LOW or MEDIUM; before the processing completes it was not called.
C1_AlertOnceIffHighOrCritical ==
    \A s \in Sessions :
        AlertCalls(s) = IF trace[s].done /\ trace[s].level \in {"HIGH", "CRITICAL"}
                        THEN 1 ELSE 0

C1_Witness ==
    \E s \in Sessions, r \in Sessions :
        /\ trace[s].done /\ trace[s].level = "HIGH" /\ AlertCalls(s) = 1
        /\ trace[r].done /\ trace[r].level = "MEDIUM" /\ AlertCalls(r) = 0

\* a line that is empty once undecodable bytes are ignored and whitespace is
\* stripped
IsBlank(data) == \A i \in 1..Len(data) : data[i] \in Range(SpaceChars) \cup {"<0xFF>"}

\* C2: reading a blank line writes the prompt and nothing else: the command
\* counter, the cache, the three log files, the alert count, the clock and the
\* record of the last analyzed command stay as they are; and once that prompt
\* is drained the session awaits the next line, unless the connection failed.
C2_BlankLineOnlyPrompts ==
    [][\A s \in Sessions :
         /\ \A data \in ClientLines :
              (IsBlank(data) /\ ReadLine(s, data)) =>
                 /\ written'[s] = Append(written[s], "prompt")
                 /\ pc'[s] = "prompt_drain"
                 /\ UNCHANGED << stats, analysis_cache, log_files, unlogged, outbound,
                                 now, trace, session_command, session_analysis,
                                 active_connections, writer_closed >>
         /\ (pc[s] = "prompt_drain" /\ pc'[s] # "prompt_drain") =>
                 \/ /\ pc'[s] = "readline"
                    /\ UNCHANGED << written, stats, analysis_cache, log_files, outbound >>
                 \/ /\ pc'[s] = "wait_closed"
                    /\ events' = events + 1 \/ writer_closed[s]
      ]_vars

C2_Witness ==
    \E s \in Sessions :
        /\ pc[s] = "readline"
        /\ written[s] = <<"welcome", "prompt">>
        /\ stats.commands = 0
        /\ log_files.sessions.entries = <<>>

\* the step names without the outcome
StepKind(x) ==
    CASE x \in {"analyze", "analyze_failed"} -> "analyze"
      [] x \in {"log", "log_failed"}         -> "log"
      [] x \in {"alert", "alert_failed"}     -> "alert"
      [] OTHER                               -> x

StepKinds(s) == [i \in 1..Len(trace[s].steps) |-> StepKind(trace[s].steps[i])]

\* C3: the steps taken for a line are analyze, log, render, write, each once
\* and in this order, followed for HIGH and CRITICAL, and only for them, by
\* the alert; and a session awaits a line only when the line before it has
\* been answered and, where due, alerted.
C3_StepsInOrder ==
    \A s \in Sessions :
        /\ trace[s].cid = 0 => trace[s].steps = <<>>
        /\ trace[s].cid > 0 =>
             /\ SubSeq(StepKinds(s), 1, 4) = <<"analyze", "log", "render", "write">>
             /\ written[s][Len(written[s])] = "reply"
                  \/ (trace[s].done /\ written[s][Len(written[s])] = "prompt")
             /\ IF trace[s].done /\ trace[s].level \in {"HIGH", "CRITICAL"}
                THEN SubSeq(StepKinds(s), 5, Len(StepKinds(s))) = <<"alert", "notify">>
                ELSE Len(trace[s].steps) = 4
        /\ (pc[s] \in {"readline", "prompt_drain"} /\ trace[s].cid > 0) => trace[s].done

C3_Witness ==
    \E s \in Sessions :
        /\ pc[s] = "reply_drain"
        /\ Occurrences(written[s], "reply") = 2
        /\ Len(trace[s].steps) = 4

\* the bucket of a score under the boundaries 0.85, 0.65 and 0.35
BucketOf(score, critical, high, medium) ==
    IF score_ge(score, critical) THEN "CRITICAL"
    ELSE IF score_ge(score, high) THEN "HIGH"
    ELSE IF score_ge(score, medium) THEN "MEDIUM"
    ELSE "LOW"

\* C4: the score analyze_command_threat returns lies in [0, 1] and the threat
\* level it returns is the bucket of that score: CRITICAL from 0.85, HIGH from
\* 0.65, MEDIUM from 0.35, LOW below.
C4_ThreatLevelIsBucketOfScore ==
    api.assessed =>
        /\ api.result.anomaly_score.c \in 0..10000
        /\ api.result.anomaly_score.c = 0 => api.result.anomaly_score.d >= 0
        /\ api.result.anomaly_score.c = 10000 => api.result.anomaly_score.d <= 0
        /\ api.result.threat_level = BucketOf(api.result.anomaly_score, 8500, 6500, 3500)

C4_Witness ==
    /\ api.assessed
    /\ api.result.threat_level = "MEDIUM"
    /\ api.result.anomaly_score.c = 3750
    /\ api.err = -1

\* C5: the threat level the session loop acts on is the bucket of the score
\* under the boundaries 0.85, 0.65 and 0.35.
C5_SessionLevelIsBucketOfScore ==
    \A s \in Sessions :
        pc[s] = "reply_drain" =>
            session_analysis[s].threat_level =
                BucketOf(session_analysis[s].anomaly_score, 85, 65, 35)

\* C6: a line that is analyzed is answered and the session goes on to drain
\* the reply, whether or not the analysis or the log write failed; and after
\* the reply the session awaits the next line, whether or not the alert was
\* delivered, unless the connection itself has failed.
C6_FailuresKeepSession ==
    [][\A s \in Sessions :
         /\ (pc[s] = "readline" /\ pc'[s] # "readline"
                /\ stats'.commands = stats.commands + 1) =>
                 /\ pc'[s] = "reply_drain"
                 /\ written'[s] = Append(written[s], "reply")
                 /\ ~writer_closed'[s]
         /\ (pc[s] = "reply_drain" /\ pc'[s] # "reply_drain") =>
                 \/ pc'[s] \in {"readline", "alerting"} /\ ~writer_closed'[s]
                 \/ /\ pc'[s] = "wait_closed"
                    /\ events' = events + 1 \/ writer_closed[s]
         /\ (pc[s] = "alerting" /\ pc'[s] # "alerting") =>
                 pc'[s] = "readline" /\ ~writer_closed'[s]
      ]_vars

C6_Witness ==
    \E s \in Sessions :
        /\ pc[s] = "readline"
        /\ trace[s].done
        /\ trace[s].steps = <<"analyze", "log_failed", "render", "write",
                              "alert_failed", "notify">>

\* C7: active_connections holds, once each, exactly the writers of the
\* sessions that have started and whose writer is not closed; a session that
\* leaves the loop has its writer closed and removed in that step, and a
\* closed session stays closed.
C7_ClosedOnceAndRegistryExact ==
    /\ [](/\ \A i, j \in 1..Len(active_connections) :
               i # j => active_connections[i] # active_connections[j]
          /\ \A s \in Sessions :
               /\ list_has(active_connections, s) <=> (Open(s) /\ ~writer_closed[s])
               /\ pc[s] \in {"wait_closed", "done"} => writer_closed[s])
    /\ [][\A s \in Sessions :
            /\ writer_closed[s] => writer_closed'[s]
            /\ pc[s] = "wait_closed" => pc'[s] \in {"wait_closed", "done"}
            /\ pc[s] = "done" => pc'[s] = "done"
            /\ (Open(s) /\ pc'[s] # pc[s] /\ pc'[s] \notin {"readline", "prompt_drain",
                                                           "reply_drain", "alerting"}) =>
                   /\ pc'[s] = "wait_closed"
                   /\ writer_closed'[s]
                   /\ ~list_has(active_connections', s)
         ]_vars

C7_Witness ==
    \E s \in Sessions, r \in Sessions :
        /\ pc[s] = "done"
        /\ trace[s].cid > 0 /\ ~trace[s].done
        /\ active_connections = <<r>>

\* the elements of a finite set of numbers in increasing order
Ascending(S) ==
    [i \in 1..Cardinality(S) |->
        CHOOSE x \in S : Cardinality({y \in S : y < x}) = i - 1]

\* C8: as long as the file system carries out the writes, the session log
\* holds one entry for every command processed whose write did not fail, in
\* the order of processing, whichever sessions issued them; and a step never
\* changes an entry that is in the log.
C8_EveryCommandLoggedOnce ==
    /\ [](log_files.sessions.ok =>
            [i \in 1..Len(log_files.sessions.entries) |->
                log_files.sessions.entries[i].cid]
              = Ascending((1..stats.commands) \ unlogged))
    /\ [][log_files.sessions.ok' =>
            /\ Len(log_files.sessions.entries') >= Len(log_files.sessions.entries)
            /\ SubSeq(log_files.sessions.entries', 1, Len(log_files.sessions.entries))
                 = log_files.sessions.entries
         ]_vars

C8_Witness ==
    /\ \A s \in Sessions : pc[s] = "reply_drain"
    /\ Len(log_files.sessions.entries) = Cardinality(Sessions)
    /\ \A s \in Sessions :
         \E i \in 1..Len(log_files.sessions.entries) :
            log_files.sessions.entries[i].cid = trace[s].cid

\* C9: the cache never holds more than cache_size entries; a new key that
\* arrives when it holds cache_size entries removes the cache_size \div 5
\* entries inserted first and leaves 801; and the key of a computed analysis
\* is in the cache afterwards.
C9_CacheBoundedOldestEvicted ==
    /\ [](Len(analysis_cache) <= cache_size)
    /\ [][(calls' = calls + 1) =>
            /\ returned'.key \in cache_keys(analysis_cache')
            /\ analysis_cache'[Len(analysis_cache')].key = returned'.key
            /\ Len(analysis_cache) = cache_size =>
                 /\ Len(analysis_cache') = 801
                 /\ SubSeq(analysis_cache', 1, 800) = SubSeq(analysis_cache, 201, 1000)
            /\ Len(analysis_cache) < cache_size =>
                 SubSeq(analysis_cache', 1, Len(analysis_cache)) = analysis_cache
         ]_vars

C9_Witness ==
    /\ calls = 1001
    /\ Len(analysis_cache) = 801
    /\ analysis_cache[1].value.command = batch_command(200)
    /\ returned.key = make_cache_key(ClientIPs[1], batch_command(1000))

\* C10: of two log entries for the same address and command, the first of
\* them computed and cached, the later carries the analysis of the first,
\* field for field; and the analysis a session holds for a cached key is the
\* cached one.
C10_CacheHitEqualsFirstResult ==
    /\ \A i, j \in 1..Len(log_files.sessions.entries) :
         LET e1 == log_files.sessions.entries[i]
             e2 == log_files.sessions.entries[j]
         IN  (i < j /\ e1.ip = e2.ip /\ e1.command = e2.command
                /\ "analysis_method" \notin DOMAIN e1.analysis)
             => e2.analysis = e1.analysis
    /\ \A s \in Sessions :
         LET key == make_cache_key(client_addr[s], session_command[s])
         IN  (pc[s] = "reply_drain" /\ key \in cache_keys(analysis_cache)
                /\ "analysis_method" \notin DOMAIN session_analysis[s])
             => session_analysis[s] = analysis_cache[cache_get(analysis_cache, key)].value

C10_Witness ==
    \E i, j \in 1..Len(log_files.sessions.entries) :
        LET e1 == log_files.sessions.entries[i]
            e2 == log_files.sessions.entries[j]
        IN  /\ i < j /\ e1.ip = e2.ip /\ e1.command = e2.command
            /\ "analysis_method" \notin DOMAIN e1.analysis
            /\ e2.timestamp > e1.timestamp
            /\ e2.analysis = e1.analysis
            /\ e2.analysis.timestamp = e1.timestamp

TwoAnswers == api.assessed /\ api.previous.result.threat_level # "NONE"

\* both requests carry the same command and the same address
SameRequest == api.previous.command = api.command /\ api.previous.ip = api.ip

\* both requests were answered on the same calendar day
SameDay ==
    /\ api.previous.day.year = api.day.year
    /\ api.previous.day.month = api.day.month
    /\ api.previous.day.day = api.day.day

\* C12: two calls of analyze_command_threat with the same command and the same
\* address on the same calendar day return the same assessment: score, tier,
\* confidence, attack vector, indicators, scoring breakdown and signature.
C12_SameArgumentsSameAssessment ==
    (TwoAnswers /\ SameRequest /\ SameDay) => api.result = api.previous.result

C12_Witness ==
    /\ TwoAnswers /\ SameRequest /\ SameDay
    /\ api.previous.day.hour # api.day.hour
    /\ api.result.attack_vector = "Reconnaissance"

\* C13: on one day, two requests that differ in the command or in the address
\* never give the same text to digest into the signature.
C13_DifferentPairsDifferentSignatureInput ==
    (TwoAnswers /\ ~SameRequest /\ SameDay) =>
        api.result.signature_data # api.previous.result.signature_data

\* C14: the text digested into the signature is fixed by command, address and
\* calendar day: for the same command and address it is the same on the same
\* day and another one on another day.
C14_SignatureFixedByCommandAddressDay ==
    (TwoAnswers /\ SameRequest) =>
        (SameDay <=> api.result.signature_data = api.previous.result.signature_data)

C14_Witness ==
    /\ TwoAnswers /\ SameRequest /\ ~SameDay
    /\ api.previous.day.year = api.day.year
    /\ api.result.signature_data # api.previous.result.signature_data

\* the substrings analyze_command_threat looks for
KnownSuspicious ==
    UNION {Range(threat_patterns[k].patterns) : k \in 1..Len(threat_patterns)}
        \cup { <<"&","&">>, <<"|","|">>, <<";">>, <<"$","(","(">>, <<"<backquote>">> }

\* C15: a command that holds a known suspicious substring and gets one more
\* occurrence of it appended has, for the same address, no bucket of the
\* scoring breakdown and no total score lower than before.
C15_OneMoreOccurrenceNeverLowers ==
    \A f \in KnownSuspicious :
        (TwoAnswers /\ api.ip = api.previous.ip
            /\ api.command = api.previous.command \o f
            /\ contains(f, api.previous.command)) =>
                /\ \A k \in 1..Len(threat_buckets) :
                     api.result.scoring_breakdown[threat_buckets[k]]
                        >= api.previous.result.scoring_breakdown[threat_buckets[k]]
                /\ api.result.anomaly_score.c >= api.previous.result.anomaly_score.c

\* C16: the attack vector is the label of the first bucket, in the order
\* system modification, privilege escalation, code execution, data access,
\* network activity, information gathering, that passes its threshold, and
\* "Generic Command" exactly when none does.
C16_AttackVectorByPriority ==
    api.assessed =>
        LET b == api.result.scoring_breakdown
            passes == << b.system_modification > 25, b.privilege_escalation > 20,
                         b.code_execution > 25, b.data_access > 18,
                         b.network_activity > 20, b.information_gathering > 15 >>
            labels == << "System Destruction", "Privilege Escalation", "Code Injection",
                         "Data Exfiltration", "Network Intrusion", "Reconnaissance" >>
        IN  /\ \A i \in 1..6 :
                 (passes[i] /\ \A j \in 1..(i - 1) : ~passes[j])
                     => api.result.attack_vector = labels[i]
            /\ (api.result.attack_vector = "Generic Command")
                   <=> \A i \in 1..6 : ~passes[i]

C16_Witness ==
    /\ api.assessed
    /\ api.result.scoring_breakdown.system_modification > 25
    /\ api.result.scoring_breakdown.privilege_escalation > 20
    /\ api.result.scoring_breakdown.data_access > 18
    /\ api.result.attack_vector = "System Destruction"

\* a step of the task of session o
SessionStep(o) ==
    \/ GreetDrain(o)
    \/ ReadEOF(o)
    \/ \E data \in ClientLines : ReadLine(o, data)
    \/ PromptDrain(o)
    \/ ReplyDrain(o)

\* C17: while the alert of one session is being delivered, every other open
\* session can take a step: read a line or have a write drained.
C17_AlertDoesNotBlockOthers ==
    \A s \in Sessions, o \in Sessions :
        (pc[s] = "alerting" /\ o # s /\ Open(o)) => ENABLED SessionStep(o)

\* C18: with the bot token or the chat id missing, send_alert posts nothing
\* and raises nothing: in the step that makes the call no request goes out,
\* the session goes on to await the next line, and but for the threat counter
\* its caller increments and the record of the calls made, the state of the
\* session and of the server stays as it is.
C18_UnconfiguredAlertIsNoOp ==
    /\ []((~bot_token \/ ~chat_id) => outbound = 0)
    /\ [][\A s \in Sessions :
            (SendAlert(s) /\ (~bot_token \/ ~chat_id)) =>
                /\ outbound' = outbound
                /\ pc'[s] = "readline"
                /\ trace'[s].steps = trace[s].steps \o <<"alert_failed", "notify">>
                /\ stats' = [stats EXCEPT !.threats = @ + 1]
                /\ \A o \in Sessions \ {s} : pc'[o] = pc[o]
                /\ UNCHANGED << written, client_addr, lines_read, active_connections,
                                writer_closed, listening, shutdown_pc, analysis_cache,
                                log_files, now, events >>
         ]_vars

C18_Witness ==
    \E s \in Sessions :
        /\ ~bot_token \/ ~chat_id
        /\ pc[s] = "readline"
        /\ trace[s].done
        /\ trace[s].level \in {"HIGH", "CRITICAL"}
        /\ trace[s].steps[5] = "alert_failed"
        /\ outbound = 0

\* C19: once _shutdown has run, active_connections is empty and every session
\* that is being served has had its writer closed.
C19_ShutdownClosesEverySession ==
    shutdown_pc = "done" =>
        /\ active_connections = <<>>
        /\ \A s \in Sessions : Open(s) => writer_closed[s]

\* C20: a step in which a session closes, for a failure or for the end of its
\* stream, changes nothing of any other session and leaves the listener as it
\* is; and while a session is closing or closed, every other open session can
\* take a step and, while the server listens, a new connection is accepted.
C20_FailureClosesOnlyThatSession ==
    /\ [](\A s \in Sessions :
            (pc[s] \in {"wait_closed", "done"} /\ loop_free) =>
                /\ \A o \in Sessions \ {s} : Open(o) => ENABLED SessionStep(o)
                /\ \A o \in Sessions \ {s} :
                     (listening /\ pc[o] = "idle" /\ \A r \in 1..(o - 1) : pc[r] # "idle")
                        => ENABLED Connect(o, ClientIPs[1]))
    /\ [][\A s \in Sessions :
            (Open(s) /\ pc'[s] = "wait_closed") =>
                /\ \A o \in Sessions \ {s} :
                     /\ pc'[o] = pc[o]
                     /\ written'[o] = written[o]
                     /\ client_addr'[o] = client_addr[o]
                     /\ session_command'[o] = session_command[o]
                     /\ session_analysis'[o] = session_analysis[o]
                     /\ trace'[o] = trace[o]
                     /\ writer_closed'[o] = writer_closed[o]
                     /\ list_has(active_connections', o) <=> list_has(active_connections, o)
                /\ UNCHANGED << listening, shutdown_pc, stats, analysis_cache, log_files >>
         ]_vars

C20_Witness ==
    \E s \in Sessions, o \in Sessions :
        /\ pc[s] = "done"
        /\ trace[s].cid > 0 /\ ~trace[s].done
        /\ shutdown_pc = "none"
        /\ pc[o] = "readline"
        /\ trace[o].done /\ trace[o].cid > trace[s].cid
        /\ list_has(active_connections, o)
        /\ listening

\* C21: in the sessions log, two records carry the same session_id exactly
\* when they were logged for the same connection.
C21_SessionIdNamesTheConnection ==
    LET logs == log_files.sessions.entries
    IN  \A i \in 1..Len(logs), j \in 1..Len(logs) :
            (logs[i].conn = logs[j].conn) <=> (logs[i].session_id = logs[j].session_id)

\* C22: every record appended for a command, in the sessions log, the
\* commands log and the TSV log, holds the response rendered for the command
\* and the command's assessment.
C22_RecordHoldsResponseAndAssessment ==
    /\ \A i \in 1..Len(log_files.sessions.entries) :
          {"response", "analysis"} \subseteq DOMAIN log_files.sessions.entries[i]
    /\ \A i \in 1..Len(log_files.commands.entries) :
          {"response", "threat_level", "anomaly_score"}
              \subseteq DOMAIN log_files.commands.entries[i]
    /\ \A i \in 1..Len(log_files.tsv) :
          {"response", "threat_level", "anomaly_score"} \subseteq DOMAIN log_files.tsv[i]

\* C23: the response generate_response returns is the canned body of the
\* command, then exactly one line of the suspicious-activity set for the tiers
\* HIGH and CRITICAL, exactly one line of the warning set for MEDIUM, nothing
\* for LOW, and last the prompt "\n[root@server ~]# ".
C23_ExtraLineByTierThenPrompt ==
    \A i \in 1..Len(rendered) :
        LET call == rendered[i]
            base == _get_command_response(strip(call.command), call.at)
        IN  /\ call.response.body = base.body /\ call.response.arg = base.arg
            /\ call.level \in {"HIGH", "CRITICAL"} =>
                   call.response.extra \in Range(suspicious_indicators)
            /\ call.level = "MEDIUM" => call.response.extra \in Range(warning_outputs)
            /\ call.level = "LOW" => call.response.extra = ""
            /\ call.response.prompt = "\n[root@server ~]# "

C23_Witness ==
    /\ Len(rendered) = 2
    /\ rendered[1].level = "MEDIUM"
    /\ rendered[1].response.extra = "\nSystem monitoring active"
    /\ rendered[2].level = "CRITICAL"
    /\ rendered[2].response.extra = "\n[ALERT] Security module activated"
    /\ rendered[2].response.body = "total 84 ..."

\* C24: two calls of generate_response with the same command and tier LOW
\* return the same response, whatever the time of each call.
C24_LowTierResponseRepeats ==
    \A i \in 1..Len(rendered), j \in 1..Len(rendered) :
        ( /\ rendered[i].command = rendered[j].command
          /\ rendered[i].level = "LOW"
          /\ rendered[j].level = "LOW" ) => rendered[i].response = rendered[j].response

\* C25: 'cat /etc/passwd' from 203.0.113.25 is assessed HIGH or CRITICAL, with
\* 'Unauthorized Data Access' or 'Reconnaissance Activity' among the
\* indicators.
C25_CatPasswdIsHighWithIndicators ==
    ( /\ api.assessed
      /\ api.command = <<"c","a","t"," ","/","e","t","c","/","p","a","s","s","w","d">>
      /\ api.ip = <<"2","0","3",".","0",".","1","1","3",".","2","5">> ) =>
        /\ api.result.threat_level \in {"HIGH", "CRITICAL"}
        /\ \E i \in 1..Len(api.result.indicators) :
              api.result.indicators[i] \in {"Unauthorized Data Access", "Reconnaissance Activity"}

\* C26: 'rm -rf /tmp/*' from an address that is neither private nor loopback
\* is assessed CRITICAL with attack vector 'System Destruction'.
C26_RmRfTmpIsCriticalDestruction ==
    ( /\ api.assessed
      /\ api.command = <<"r","m"," ","-","r","f"," ","/","t","m","p","/","*">>
      /\ get_geographic_info_type(api.ip) = "External" ) =>
        /\ api.result.threat_level = "CRITICAL"
        /\ api.result.attack_vector = "System Destruction"

\* C29: the assessment's network_activity holds the external-address bonus
\* (0.08 over what the patterns of the command add) exactly when the address
\* is neither private nor loopback.
C29_ExternalBonusIffExternalAddress ==
    api.assessed =>
        LET patterns == pattern_score("network_activity", strip(lower(api.command)))
            bonus == api.result.scoring_breakdown.network_activity - patterns
        IN  /\ bonus \in {0, 8}
            /\ bonus = 8 <=> get_geographic_info_type(api.ip) = "External"

\* C27: for the empty command, analyze_command_threat returns an assessment
\* with tier LOW and a score in [0, 1], and so does AIManager.validate_command
\* with no model loaded.
C27_EmptyCommandIsLow ==
    (api.assessed /\ api.command = <<>>) =>
        LET v == validate_command("None", api.command, now)
        IN  /\ api.result.threat_level = "LOW"
            /\ api.result.anomaly_score.c \in 0..10000
            /\ api.result.attack_vector = "Generic Command"
            /\ v.threat_level = "LOW"
            /\ v.anomaly_score.c \in 0..100
            /\ v.risk_factors = <<>>

C27_Witness ==
    /\ api.assessed
    /\ api.command = <<>>
    /\ api.ip = <<"2","0","3",".","0",".","1","1","3",".","2","5">>
    /\ api.result.threat_level = "LOW"
    /\ api.result.scoring_breakdown.network_activity = 8
    /\ validate_command("None", api.command, now).threat_level = "LOW"

\* C28: whatever analyze_command returns, from the cache, from a fresh
\* analysis or after an exception in it, carries threat_level and
\* anomaly_score; and a fresh analysis made with no model, or with a model
\* whose scoring raises, carries the heuristic score of the command.
C28_HeuristicFallbackAndNoException ==
    returned.key # <<>> =>
        /\ {"threat_level", "anomaly_score"} \subseteq DOMAIN returned.analysis
        /\ returned.analysis.threat_level \in {"LOW", "MEDIUM", "HIGH", "CRITICAL"}
        /\ ( /\ ~returned.hit
             /\ "analysis_method" \notin DOMAIN returned.analysis
             /\ returned.model \in {"None", "Raises"} ) =>
               returned.analysis.anomaly_score
                   = _heuristic_score(extract_features(returned.analysis.command))

C28_Witness ==
    /\ returned.key # <<>>
    /\ returned.model = "Raises"
    /\ ~returned.hit
    /\ "analysis_method" \notin DOMAIN returned.analysis
    /\ returned.analysis.command = <<"s","u","d","o"," ","i","d"," ","&","&"," ","w","h","o","a","m","i",";"," ","r","m"," ","-","r","f"," ","/">>
    /\ returned.analysis.anomaly_score = Score(85, 0)
    /\ returned.analysis.threat_level = "CRITICAL"

\* the number of assessments the /analyze route has made for an address
AssessmentsMade(ip) == Cardinality({m \in threat_intel.made : m.ip = ip})

\* C30: when no request is being served, every address assessed has one
\* profile, whose attack_frequency is the number of assessments made for
\* the address and whose reputation_score is in [0, 1]; an address never
\* assessed has none.
C30_ProfileCountsEveryAssessment ==
    (\A w \in Workers : threat_intel.workers[w].pc = "idle") =>
        \A ip \in RequestIPs :
            LET profiles == {p \in threat_intel.file : p.ip = ip}
            IN  /\ Cardinality(profiles) = IF AssessmentsMade(ip) > 0 THEN 1 ELSE 0
                /\ \A p \in profiles :
                      /\ p.attack_frequency = AssessmentsMade(ip)
                      /\ p.reputation_score \in 0..10000

\* what a reader of the HTML message format makes of a text: each of the
\* entities "&lt;", "&gt;", "&amp;" stands for its character
entity_at(s, i, entity) ==
    /\ i >= 1
    /\ i + Len(entity) - 1 <= Len(s)
    /\ SubSeq(s, i, i + Len(entity) - 1) = entity

\* what the characters i..j of s are decoded to
RECURSIVE html_decode_range(_, _, _)
html_decode_range(s, i, j) ==
    IF i > j THEN <<>>
    ELSE IF i = j
    THEN CASE entity_at(s, i, <<"&","l","t",";">>) -> <<"<">>
           [] entity_at(s, i, <<"&","g","t",";">>) -> <<">">>
           [] entity_at(s, i, <<"&","a","m","p",";">>) -> <<"&">>
           [] \E k \in 1..3 : entity_at(s, i - k, <<"&","l","t",";">>) \/ entity_at(s, i - k, <<"&","g","t",";">>) -> <<>>
           [] \E k \in 1..4 : entity_at(s, i - k, <<"&","a","m","p",";">>) -> <<>>
           [] OTHER -> <<s[i]>>
    ELSE LET mid == (i + j) \div 2
         IN  html_decode_range(s, i, mid) \o html_decode_range(s, mid + 1, j)

html_decode(s) == html_decode_range(s, 1, Len(s))

\* C31: the escaped command of an alert decodes to the command, or, when it
\* was cut to 500 characters, its first 500 characters decode to the beginning
\* of the command; and the text sent has at most 4096 characters.
C31_EscapedCommandDecodesToCommand ==
    alert_text.sent =>
        /\ IF Len(alert_text.safe) <= 500
           THEN html_decode(alert_text.safe) = alert_text.command
           ELSE startswith(alert_text.command, html_decode(SubSeq(alert_text.safe, 1, 500)))
        /\ Len(alert_text.text) <= 4096

\* C32: a session that has read a line wrote the greeting first, and every
\* write of a session, the greeting included, ends with the prompt
\* '[root@server ~]# '.
C32_GreetingFirstEveryWriteEndsWithPrompt ==
    \A s \in Sessions :
        /\ ( \/ pc[s] \in {"readline", "prompt_drain", "reply_drain", "alerting"}
             \/ trace[s].cid > 0
             \/ Len(written[s]) > 0 ) => /\ Len(written[s]) > 0
                                         /\ written[s][1] = "welcome"
        /\ \A i \in 1..Len(written[s]) :
               /\ endswith(write_bytes(written[s][i]), <<"[","r","o","o","t","@","s","e","r","v","e","r"," ","~","]","#"," ">>)
               /\ i > 1 => written[s][i] \in {"prompt", "reply"}

C32_Witness ==
    \E s \in Sessions :
        /\ written[s] = <<"welcome", "prompt", "reply">>
        /\ trace[s].done

\* C33: every connection that run_server has accepted is eventually served:
\* its handle_client task runs and sends the greeting.
C33_AcceptedConnectionIsServed ==
    \A c \in 1..MaxConnections :
        (Len(simple.tasks) >= c) ~> (Len(simple.tasks) >= c /\ simple.tasks[c].sent # <<>>)

\* the order of the tiers
TierRank(level) ==
    CASE level = "LOW" -> 0 [] level = "MEDIUM" -> 1 [] level = "HIGH" -> 2
      [] level = "CRITICAL" -> 3

\* C34: of two commands assessed by SimpleHoneypot.analyze_threat_level, the
\* one with the lower or equal score does not have the higher tier, and every
\* score lies in [0,1].
C34_TierMonotoneInScore ==
    \A i \in 1..Len(simple.sessions), j \in 1..Len(simple.sessions) :
        LET first == simple.sessions[i]
            second == simple.sessions[j]
        IN  /\ first.anomaly_score >= 0 /\ first.anomaly_score <= 100
            /\ first.anomaly_score <= second.anomaly_score =>
                   TierRank(first.threat_level) <= TierRank(second.threat_level)

\* C35: when handle_client receives an empty line, it sends the prompt again,
\* analyzes nothing and logs nothing.
C35_EmptyLineGetsPromptOnly ==
    [][ \A c \in 1..Len(simple.tasks) :
          ( /\ simple'.tasks[c].lines = simple.tasks[c].lines + 1
            /\ \A k \in 1..Len(simple'.tasks[c].last) : isspace(simple'.tasks[c].last[k]) ) =>
              /\ simple'.tasks[c].sent = Append(simple.tasks[c].sent, <<"[","u","s","e","r","@","s","e","r","v","e","r"," ","~","]","#"," ">>)
              /\ simple'.tasks[c].analyses = simple.tasks[c].analyses
              /\ simple'.sessions = simple.sessions
      ]_vars

\* C36: a JSON log file never holds more than 10000 entries; after a call of
\* _append_to_json that read and wrote the file, it holds the last 10000 of
\* what it held before followed by the new entry, which is its last entry;
\* and after calls that all did so, it holds the last 10000 of everything
\* appended, in the order of the appends.
C36_FileHoldsLastEntriesInOrder ==
    LET entries == json_log.file.entries
        calls_made == json_log.appended
        everything == EntriesHeld(json_log.held)
                      \o [i \in 1..Len(calls_made) |-> calls_made[i].data]
    IN  /\ Len(entries) <= 10000
        /\ (calls_made # <<>> /\ calls_made[Len(calls_made)].written) =>
              /\ entries # <<>>
              /\ entries[Len(entries)] = calls_made[Len(calls_made)].data
              /\ \A i \in 1..(Len(entries) - 1) :
                    entries[i] = json_log.before[Len(json_log.before) - (Len(entries) - 1) + i]
              /\ Len(entries) = Min(10000, Len(json_log.before) + 1)
        /\ (\A i \in 1..Len(calls_made) : calls_made[i].written) =>
              /\ Len(entries) = Min(10000, Len(everything))
              /\ \A i \in 1..Len(entries) :
                    entries[i] = everything[Len(everything) - Len(entries) + i]

C36_Witness ==
    /\ json_log.held = 10000
    /\ Len(json_log.appended) = 2
    /\ \A i \in 1..2 : json_log.appended[i].written
    /\ Len(json_log.file.entries) = 10000
    /\ json_log.file.entries[1].id = 3
    /\ json_log.file.entries[10000].id = 10002

\* the indicator of the bucket that an attack vector is named after
IndicatorOfVector(vector) ==
    CASE vector = "System Destruction"   -> "System Modification Threat"
      [] vector = "Privilege Escalation" -> "Privilege Escalation Attempt"
      [] vector = "Code Injection"       -> "Code Execution Pattern"
      [] vector = "Data Exfiltration"    -> "Unauthorized Data Access"
      [] vector = "Network Intrusion"    -> "Suspicious Network Activity"
      [] vector = "Reconnaissance"       -> "Reconnaissance Activity"

\* C37: an assessment whose attack vector is not 'Generic Command' has a
\* non-empty indicator list, which holds the indicator of the vector's bucket.
C37_VectorImpliesItsIndicator ==
    (api.assessed /\ api.result.attack_vector # "Generic Command") =>
        /\ api.result.indicators # <<>>
        /\ IndicatorOfVector(api.result.attack_vector) \in Range(api.result.indicators)

C37_Witness ==
    /\ api.assessed
    /\ api.result.attack_vector = "Reconnaissance"
    /\ api.result.indicators = <<"Reconnaissance Activity">>

\* C38: an assessment returned from the cache was made for the address and
\* the command of the call that gets it.
C38_CacheHitIsForTheSamePair ==
    returned.hit =>
        /\ returned.analysis.ip = returned.ip
        /\ returned.analysis.command = returned.command

\* the sum of f[s] over the sessions
RECURSIVE SumOver(_, _)
SumOver(f, set) ==
    IF set = {} THEN 0
    ELSE LET x == CHOOSE y \in set : TRUE IN f[x] + SumOver(f, set \ {x})

\* the lines received that were not empty: all lines read, less those that
\* were answered with the bare prompt
NonEmptyLinesReceived ==
    lines_read - SumOver([s \in Sessions |-> Occurrences(written[s], "prompt")], Sessions)

\* C39: stats["commands"] is the number of non-empty lines received;
\* stats["threats"] grows by one exactly when the alert call for a HIGH or
\* CRITICAL command returns, and is at most stats["commands"];
\* stats["connections"] is the number of connections whose handler was entered
\* and never decreases.
C39_StatsCountWhatHappened ==
    /\ [] ( /\ stats.commands = NonEmptyLinesReceived
            /\ stats.threats <= stats.commands
            /\ stats.connections = Cardinality({s \in Sessions : pc[s] \notin {"idle", "pending"}}) )
    /\ [][ /\ stats'.connections >= stats.connections
           /\ stats'.threats # stats.threats =>
                /\ stats'.threats = stats.threats + 1
                /\ \E s \in Sessions :
                     /\ pc[s] = "alerting" /\ pc'[s] = "readline"
                     /\ session_analysis[s].threat_level \in {"HIGH", "CRITICAL"}
           /\ \A s \in Sessions :
                (pc[s] = "alerting" /\ pc'[s] = "readline") =>
                    stats'.threats = stats.threats + 1
       ]_vars

C39_Witness ==
    /\ stats.connections = 2
    /\ stats.commands = 1
    /\ lines_read = 2
    /\ stats.threats = 1

\* C40: when a broadcast has ended, delivery was attempted to every connection
\* that was active when it started and still works; every connection whose
\* send failed is removed; and no working connection is removed.
C40_BroadcastReachesEveryConnection ==
    (ws.broadcasts > 0 /\ ws.iter = 0) =>
        /\ \A c \in Range(ws.started) \cap ws.working : c \in ws.attempted
        /\ \A c \in ws.failed : ~list_has(ws.active_connections, c)
        /\ \A c \in ws.working : list_has(ws.active_connections, c)

=============================================================================
